---------------------------- MODULE Spec2Model ----------------------------
(***************************************************************************)
(* Aspect-based sentiment analysis engine of the movie-review analyzer:   *)
(* the orchestrator analyze, its two strategies (local zero-shot NLI and  *)
(* remote LLM), the lazily constructed process-wide singletons, the text  *)
(* normalizer and the response parser.                                    *)
(*                                                                         *)
(* Text is a sequence of one-character strings, so that cleaning,         *)
(* stripping, slicing and JSON parsing are computed character by          *)
(* character as the code computes them.  Index 0 stands for Python's -1   *)
(* (not found); positions are 1-based.                                     *)
(***************************************************************************)
EXTENDS Integers, Sequences, FiniteSets, TLC

(***************************************************************************)
(* Text literals of the source.                                            *)
(***************************************************************************)
\* the grave accent U+0060, which a TLA+ string cannot hold
Backtick == "GRAVE"

TxtEmpty == <<>>
TxtNoReview == <<"(", "n", "o", " ", "r", "e", "v", "i", "e", "w", ")">>
TxtErrorAspect == <<"(", "e", "r", "r", "o", "r", ")">>
TxtAspect == <<"a", "s", "p", "e", "c", "t">>
TxtSentiment == <<"s", "e", "n", "t", "i", "m", "e", "n", "t">>
TxtConfidence == <<"c", "o", "n", "f", "i", "d", "e", "n", "c", "e">>
TxtPositive == <<"p", "o", "s", "i", "t", "i", "v", "e">>
TxtNegative == <<"n", "e", "g", "a", "t", "i", "v", "e">>
TxtNeutral == <<"n", "e", "u", "t", "r", "a", "l">>
TxtNotMentioned == <<"n", "o", "t", "_", "m", "e", "n", "t", "i", "o", "n", "e", "d">>
TxtError == <<"e", "r", "r", "o", "r">>
TxtColonSpace == <<":", " ">>
TxtValueError == <<"V", "a", "l", "u", "e", "E", "r", "r", "o", "r">>
TxtAttributeError == <<"A", "t", "t", "r", "i", "b", "u", "t", "e", "E", "r", "r", "o", "r">>
TxtTypeError == <<"T", "y", "p", "e", "E", "r", "r", "o", "r">>
TxtLookupError == <<"L", "o", "o", "k", "u", "p", "E", "r", "r", "o", "r">>
TxtOSError == <<"O", "S", "E", "r", "r", "o", "r">>
TxtRuntimeError == <<"R", "u", "n", "t", "i", "m", "e", "E", "r", "r", "o", "r">>
TxtOpenAIError == <<"O", "p", "e", "n", "A", "I", "E", "r", "r", "o", "r">>
TxtAPIConnectionError == <<"A", "P", "I", "C", "o", "n", "n", "e", "c", "t", "i", "o", "n", "E", "r", "r", "o", "r">>
TxtKeyName == <<"O", "P", "E", "N", "A", "I", "_", "A", "P", "I", "_", "K", "E", "Y">>
TxtKeyMissing == <<"O", "p", "e", "n", "A", "I", " ", "A", "P", "I", " ", "k", "e", "y", " ", "n", "o", "t", " ", "f", "o", "u", "n", "d", ".", " ", "P", "l", "e", "a", "s", "e", " ", "s", "e", "t", " ", "O", "P", "E", "N", "A", "I", "_", "A", "P", "I", "_", "K", "E", "Y", " ", "e", "n", "v", "i", "r", "o", "n", "m", "e", "n", "t", " ", "v", "a", "r", "i", "a", "b", "l", "e", " ", "o", "r", " ", "a", "d", "d", " ", "i", "t", " ", "t", "o", " ", "a", " ", ".", "e", "n", "v", " ", "f", "i", "l", "e", " ", "i", "n", " ", "t", "h", "e", " ", "p", "r", "o", "j", "e", "c", "t", " ", "r", "o", "o", "t", ".">>
TxtParseFailed == <<"F", "a", "i", "l", "e", "d", " ", "t", "o", " ", "p", "a", "r", "s", "e", " ", "O", "p", "e", "n", "A", "I", " ", "r", "e", "s", "p", "o", "n", "s", "e", " ", "a", "s", " ", "J", "S", "O", "N", ".", " ", "R", "e", "s", "p", "o", "n", "s", "e", " ", "w", "a", "s", ":", " ">>
TxtEllipsis == <<".", ".", ".">>
TxtQuote == <<"'">>
TxtNoGet == <<"'", " ", "o", "b", "j", "e", "c", "t", " ", "h", "a", "s", " ", "n", "o", " ", "a", "t", "t", "r", "i", "b", "u", "t", "e", " ", "'", "g", "e", "t", "'">>
TxtNoStrip == <<"'", " ", "o", "b", "j", "e", "c", "t", " ", "h", "a", "s", " ", "n", "o", " ", "a", "t", "t", "r", "i", "b", "u", "t", "e", " ", "'", "s", "t", "r", "i", "p", "'">>
TxtNotIterable == <<"'", " ", "o", "b", "j", "e", "c", "t", " ", "i", "s", " ", "n", "o", "t", " ", "i", "t", "e", "r", "a", "b", "l", "e">>
TxtInt == <<"i", "n", "t">>
TxtStr == <<"s", "t", "r">>
TxtList == <<"l", "i", "s", "t">>
TxtDict == <<"d", "i", "c", "t">>
TxtBool == <<"b", "o", "o", "l">>
TxtNoneType == <<"N", "o", "n", "e", "T", "y", "p", "e">>
TxtFence == <<Backtick, Backtick, Backtick>>
TxtTrue == <<"t", "r", "u", "e">>
TxtFalse == <<"f", "a", "l", "s", "e">>
TxtNull == <<"n", "u", "l", "l">>

(***************************************************************************)
(* Character classes and string primitives (Python str / re semantics).    *)
(***************************************************************************)
Whitespace == {" ", "\n", "\t", "\r"}

Digits == {"0", "1", "2", "3", "4", "5", "6", "7", "8", "9"}

LowerLetters ==
    {"a", "b", "c", "d", "e", "f", "g", "h", "i", "j", "k", "l", "m",
     "n", "o", "p", "q", "r", "s", "t", "u", "v", "w", "x", "y", "z"}

UpperLetters ==
    {"A", "B", "C", "D", "E", "F", "G", "H", "I", "J", "K", "L", "M",
     "N", "O", "P", "Q", "R", "S", "T", "U", "V", "W", "X", "Y", "Z"}

Letters == LowerLetters \cup UpperLetters

MinOf(S) == CHOOSE x \in S : \A y \in S : x <= y

MaxOf(S) == CHOOSE x \in S : \A y \in S : x >= y

\* an assignment "x = e" followed by the statements F that read x: e is
\* computed once, as the interpreter computes it
With(e, F(_)) == CHOOSE r \in {F(x) : x \in {e}} : TRUE

Take(s, n) == SubSeq(s, 1, IF n < Len(s) THEN n ELSE Len(s))

StartsWithAt(s, i, p) ==
    /\ i >= 1
    /\ i + Len(p) - 1 <= Len(s)
    /\ \A k \in 1..Len(p) : s[i + k - 1] = p[k]

Contains(s, p) == \E i \in 1..(Len(s) + 1) : StartsWithAt(s, i, p)

\* str.find(c): position of the first occurrence of character c, 0 when absent
Find(s, c) ==
    With({i \in 1..Len(s) : s[i] = c}, LAMBDA hits :
        IF hits = {} THEN 0 ELSE MinOf(hits))

\* str.rfind(c): position of the last occurrence of character c, 0 when absent
RFind(s, c) ==
    With({i \in 1..Len(s) : s[i] = c}, LAMBDA hits :
        IF hits = {} THEN 0 ELSE MaxOf(hits))

\* first position at or after i that holds no character of class cls
SkipClass(s, i, cls) ==
    With({j \in i..Len(s) : s[j] \notin cls}, LAMBDA rest :
        IF rest = {} THEN Len(s) + 1 ELSE MinOf(rest))

\* str.strip()
Strip(s) ==
    With({i \in 1..Len(s) : s[i] \notin Whitespace}, LAMBDA keep :
        IF keep = {} THEN <<>> ELSE SubSeq(s, MinOf(keep), MaxOf(keep)))

\* " ".join(parts) and ", ".join(parts)
RECURSIVE Join(_, _)
Join(sep, parts) ==
    IF parts = <<>> THEN <<>>
    ELSE IF Len(parts) = 1 THEN parts[1]
    ELSE With(Tail(parts), LAMBDA rest : parts[1] \o sep \o Join(sep, rest))

(***************************************************************************)
(* JSON values and json.loads.  A value is a record of one shape:         *)
(*   t    : "str" | "int" | "float" | "true" | "false" | "null" |         *)
(*          "list" | "dict"                                                *)
(*   txt  : the characters of a str, the lexeme of a float                *)
(*   n    : the value of an int                                            *)
(*   keys, kids : a dict's keys (texts) and values in insertion order, a  *)
(*          list's items in kids.                                          *)
(* The texts of this model hold no backslash (no string escapes) and no   *)
(* NaN / Infinity literals.                                                *)
(***************************************************************************)
JVal(t, txt, n, keys, kids) ==
    [t |-> t, txt |-> txt, n |-> n, keys |-> keys, kids |-> kids]

JNull == JVal("null", <<>>, 0, <<>>, <<>>)

JBool(b) == JVal(IF b THEN "true" ELSE "false", <<>>, 0, <<>>, <<>>)

JStr(s) == JVal("str", s, 0, <<>>, <<>>)

JInt(n) == JVal("int", <<>>, n, <<>>, <<>>)

JFloat(lexeme) == JVal("float", lexeme, 0, <<>>, <<>>)

JList(items) == JVal("list", <<>>, 0, <<>>, items)

JDict(keys, vals) == JVal("dict", <<>>, 0, keys, vals)

\* dict[k] = v: a repeated key keeps its place and takes the new value
DictSet(d, k, v) ==
    With({i \in 1..Len(d.keys) : d.keys[i] = k}, LAMBDA at :
        IF at = {}
        THEN JDict(Append(d.keys, k), Append(d.kids, v))
        ELSE JDict(d.keys, [d.kids EXCEPT ![MinOf(at)] = v]))

\* dict.get(k, default)
DictGet(d, k, default) ==
    With({i \in 1..Len(d.keys) : d.keys[i] = k}, LAMBDA at :
        IF at = {} THEN default ELSE d.kids[MinOf(at)])

\* type(v).__name__
TypeName(v) ==
    CASE v.t = "str" -> TxtStr
      [] v.t = "int" -> TxtInt
      [] v.t = "float" -> <<"f", "l", "o", "a", "t">>
      [] v.t \in {"true", "false"} -> TxtBool
      [] v.t = "null" -> TxtNoneType
      [] v.t = "list" -> TxtList
      [] v.t = "dict" -> TxtDict

DigitVal(c) ==
    CASE c = "0" -> 0 [] c = "1" -> 1 [] c = "2" -> 2 [] c = "3" -> 3
      [] c = "4" -> 4 [] c = "5" -> 5 [] c = "6" -> 6 [] c = "7" -> 7
      [] c = "8" -> 8 [] c = "9" -> 9

RECURSIVE IntValue(_)
IntValue(ds) ==
    IF ds = <<>> THEN 0
    ELSE With(SubSeq(ds, 1, Len(ds) - 1), LAMBDA front :
            10 * IntValue(front) + DigitVal(ds[Len(ds)]))

\* the result of a scanning step: the value and the position after it
Scanned(v, pos) == [ok |-> TRUE, val |-> v, pos |-> pos]

ScanFail == [ok |-> FALSE, val |-> JNull, pos |-> 0]

\* json.decoder.scanstring at the opening quote s[i]
ScanString(s, i) ==
    With({j \in (i + 1)..Len(s) : s[j] = "\""}, LAMBDA close :
        IF close = {} THEN ScanFail
        ELSE With(MinOf(close), LAMBDA j :
             With(SubSeq(s, i + 1, j - 1), LAMBDA body :
                IF \E k \in 1..Len(body) : body[k] \in {"\n", "\t", "\r"}
                THEN ScanFail
                ELSE Scanned(JStr(body), j + 1))))

\* json.scanner NUMBER_RE: (-?(?:0|[1-9]\d*))(\.\d+)?([eE][-+]?\d+)?
ScanNumber(s, i) ==
    With(IF s[i] = "-" THEN i + 1 ELSE i, LAMBDA d0 :
    With(IF d0 > Len(s) \/ s[d0] \notin Digits THEN d0
         ELSE IF s[d0] = "0" THEN d0 + 1
         ELSE SkipClass(s, d0, Digits), LAMBDA intEnd :
    With(IF /\ intEnd + 1 <= Len(s)
            /\ s[intEnd] = "."
            /\ s[intEnd + 1] \in Digits
         THEN SkipClass(s, intEnd + 1, Digits) ELSE intEnd, LAMBDA fracEnd :
    With(IF fracEnd <= Len(s) /\ s[fracEnd] \in {"e", "E"}
         THEN IF fracEnd + 1 <= Len(s) /\ s[fracEnd + 1] \in {"+", "-"}
              THEN fracEnd + 2 ELSE fracEnd + 1
         ELSE 0, LAMBDA expDigits :
    With(IF expDigits > 0 /\ expDigits <= Len(s) /\ s[expDigits] \in Digits
         THEN SkipClass(s, expDigits, Digits) ELSE fracEnd, LAMBDA expEnd :
        IF intEnd = d0 THEN ScanFail
        ELSE IF expEnd = intEnd
             THEN With(IntValue(SubSeq(s, d0, intEnd - 1)), LAMBDA mag :
                    Scanned(JInt(IF d0 > i THEN 0 - mag ELSE mag), intEnd))
             ELSE Scanned(JFloat(SubSeq(s, i, expEnd - 1)), expEnd))))))

RECURSIVE ScanOnce(_, _)
RECURSIVE ScanItems(_, _, _)
RECURSIVE ScanMembers(_, _, _)

\* json.decoder.JSONArray after "[": j is the position of the next item
ScanItems(s, j, acc) ==
    With(ScanOnce(s, j), LAMBDA r :
        IF ~r.ok THEN ScanFail
        ELSE With(SkipClass(s, r.pos, Whitespace), LAMBDA k :
                IF k > Len(s) THEN ScanFail
                ELSE IF s[k] = "]" THEN Scanned(JList(Append(acc, r.val)), k + 1)
                ELSE IF s[k] = ","
                     THEN With(SkipClass(s, k + 1, Whitespace), LAMBDA next :
                          With(Append(acc, r.val), LAMBDA acc2 :
                            ScanItems(s, next, acc2)))
                ELSE ScanFail))

\* json.decoder.JSONObject after "{": j is the position of the key's quote
ScanMembers(s, j, acc) ==
    With(IF j <= Len(s) /\ s[j] = "\"" THEN ScanString(s, j) ELSE ScanFail,
         LAMBDA key :
        IF ~key.ok THEN ScanFail
        ELSE With(SkipClass(s, key.pos, Whitespace), LAMBDA colon :
            IF colon > Len(s) \/ s[colon] # ":" THEN ScanFail
            ELSE With(SkipClass(s, colon + 1, Whitespace), LAMBDA at :
                 With(ScanOnce(s, at), LAMBDA r :
                    IF ~r.ok THEN ScanFail
                    ELSE With(SkipClass(s, r.pos, Whitespace), LAMBDA k :
                         With(DictSet(acc, key.val.txt, r.val), LAMBDA acc2 :
                            IF k > Len(s) THEN ScanFail
                            ELSE IF s[k] = "}" THEN Scanned(acc2, k + 1)
                            ELSE IF s[k] = ","
                                 THEN With(SkipClass(s, k + 1, Whitespace),
                                           LAMBDA next : ScanMembers(s, next, acc2))
                            ELSE ScanFail))))))

\* json.scanner.py_make_scanner._scan_once at position i
ScanOnce(s, i) ==
    IF i > Len(s) THEN ScanFail
    ELSE IF s[i] = "\"" THEN ScanString(s, i)
    ELSE IF s[i] = "{"
         THEN With(SkipClass(s, i + 1, Whitespace), LAMBDA j :
                IF j <= Len(s) /\ s[j] = "}"
                THEN Scanned(JDict(<<>>, <<>>), j + 1)
                ELSE ScanMembers(s, j, JDict(<<>>, <<>>)))
    ELSE IF s[i] = "["
         THEN With(SkipClass(s, i + 1, Whitespace), LAMBDA j :
                IF j <= Len(s) /\ s[j] = "]"
                THEN Scanned(JList(<<>>), j + 1)
                ELSE ScanItems(s, j, <<>>))
    ELSE IF StartsWithAt(s, i, TxtNull) THEN Scanned(JNull, i + 4)
    ELSE IF StartsWithAt(s, i, TxtTrue) THEN Scanned(JBool(TRUE), i + 4)
    ELSE IF StartsWithAt(s, i, TxtFalse) THEN Scanned(JBool(FALSE), i + 5)
    ELSE ScanNumber(s, i)

\* json.loads(s): [ok, val]; ok = FALSE stands for json.JSONDecodeError
json_loads(s) ==
    With(SkipClass(s, 1, Whitespace), LAMBDA begin :
    With(ScanOnce(s, begin), LAMBDA r :
        IF r.ok /\ SkipClass(s, r.pos, Whitespace) = Len(s) + 1
        THEN [ok |-> TRUE, val |-> r.val]
        ELSE [ok |-> FALSE, val |-> JNull]))

(***************************************************************************)
(* Exceptions and call results.  An exception is its class name and its   *)
(* message; a call either returns a value or raises.                       *)
(***************************************************************************)
Exc(kind, msg) == [kind |-> kind, msg |-> msg]

NoExc == Exc(<<>>, <<>>)

Ret(v) == [exc |-> NoExc, val |-> v]

Raise(e) == [exc |-> e, val |-> JNull]

\* the classes caught by "except Exception"
ExceptionKinds ==
    {TxtValueError, TxtAttributeError, TxtTypeError, TxtLookupError,
     TxtOSError, TxtRuntimeError, TxtOpenAIError, TxtAPIConnectionError}

\* the classes caught by "except (json.JSONDecodeError, ValueError)"
ValueErrorKinds == {TxtValueError}

\* f"{type(e).__name__}: {e}"
FormatExc(e) == e.kind \o TxtColonSpace \o e.msg

(***************************************************************************)
(* Remote strategy: parsing of the completion text.                        *)
(***************************************************************************)
\* characters of the response kept in the parse error's message
ExcerptLen == 200

\* re.sub(r"^```json\s*|\s*```$", "", txt, flags=re.I) on a stripped txt
StripFences(txt) ==
    With(IF /\ StartsWithAt(txt, 1, TxtFence)
            /\ Len(txt) >= 7
            /\ txt[4] \in {"j", "J"}
            /\ txt[5] \in {"s", "S"}
            /\ txt[6] \in {"o", "O"}
            /\ txt[7] \in {"n", "N"}
         THEN SkipClass(txt, 8, Whitespace) ELSE 1, LAMBDA from :
    With(SubSeq(txt, from, Len(txt)), LAMBDA rest :
        IF ~StartsWithAt(rest, Len(rest) - 2, TxtFence) THEN rest
        ELSE With(SubSeq(rest, 1, Len(rest) - 3), LAMBDA body :
             With({i \in 1..Len(body) : body[i] \notin Whitespace}, LAMBDA keep :
                IF keep = {} THEN <<>> ELSE SubSeq(body, 1, MaxOf(keep))))))

\* a slice that ends at the first "]" (find) instead of the last (rfind)
BracketSliceFirstClose(txt_clean) ==
    With(Find(txt_clean, "["), LAMBDA start :
    With(Find(txt_clean, "]"), LAMBDA end :
        IF start # 0 /\ end # 0 THEN SubSeq(txt_clean, start, end)
        ELSE txt_clean))

\* a slice txt_clean[start: end] in its place: the closing bracket left out
BracketSliceExclusive(txt_clean) ==
    With(Find(txt_clean, "["), LAMBDA start :
    With(RFind(txt_clean, "]"), LAMBDA end :
        IF start # 0 /\ end # 0 THEN SubSeq(txt_clean, start, end - 1)
        ELSE txt_clean))

\* txt_clean[start: end + 1] when both brackets are found
BracketSlice(txt_clean) ==
    With(Find(txt_clean, "["), LAMBDA start :
    With(RFind(txt_clean, "]"), LAMBDA end :
        IF start # 0 /\ end # 0 THEN SubSeq(txt_clean, start, end)
        ELSE txt_clean))

\* the parse error raised when both attempts fail
ParseError(txt) ==
    Exc(TxtValueError, TxtParseFailed \o Take(txt, ExcerptLen) \o TxtEllipsis)

\* the two attempts in the other order: the fence-stripped and
\* bracket-sliced parse first, the direct parse when it fails
ParseCompletionSliceFirst(content) ==
    With(Strip(content), LAMBDA txt :
    With(StripFences(txt), LAMBDA unfenced :
    With(Strip(unfenced), LAMBDA txt_clean :
    With(BracketSlice(txt_clean), LAMBDA sliced :
    With(json_loads(sliced), LAMBDA second :
        IF second.ok THEN Ret(second.val)
        ELSE With(json_loads(txt), LAMBDA direct :
                IF direct.ok THEN Ret(direct.val)
                ELSE Raise(ParseError(txt))))))))

\* lines 222-239: direct parse, then fence-stripped and bracket-sliced parse
ParseCompletion(content) ==
    With(Strip(content), LAMBDA txt :
    With(json_loads(txt), LAMBDA direct :
        IF direct.ok THEN Ret(direct.val)
        ELSE With(StripFences(txt), LAMBDA unfenced :
             With(Strip(unfenced), LAMBDA txt_clean :
             With(BracketSlice(txt_clean), LAMBDA sliced :
             With(json_loads(sliced), LAMBDA second :
                IF second.ok THEN Ret(second.val)
                ELSE Raise(ParseError(txt))))))))

(***************************************************************************)
(* Text normalizer.                                                        *)
(***************************************************************************)
\* length of the match of <br\s*/?> at position i, 0 when there is none
BrMatchLen(s, i) ==
    IF ~StartsWithAt(s, i, <<"<", "b", "r">>) THEN 0
    ELSE With(SkipClass(s, i + 3, Whitespace), LAMBDA j :
         With(IF j <= Len(s) /\ s[j] = "/" THEN j + 1 ELSE j, LAMBDA k :
            IF k <= Len(s) /\ s[k] = ">" THEN k + 1 - i ELSE 0))

\* re.sub(r"<br\s*/?>", " ", s) from position i on
RECURSIVE ReplaceBr(_, _)
ReplaceBr(s, i) ==
    IF i > Len(s) THEN <<>>
    ELSE With(BrMatchLen(s, i), LAMBDA m :
            IF m > 0
            THEN With(i + m, LAMBDA next : <<" ">> \o ReplaceBr(s, next))
            ELSE With(i + 1, LAMBDA next : <<s[i]>> \o ReplaceBr(s, next)))

\* re.sub(r'([.!?])(?=[A-Za-z])', r'\1 ', s) from position i on
RECURSIVE SpaceAfterPunct(_, _)
SpaceAfterPunct(s, i) ==
    IF i > Len(s) THEN <<>>
    ELSE With(i + 1, LAMBDA next :
            IF s[i] \in {".", "!", "?"} /\ i < Len(s) /\ s[next] \in Letters
            THEN <<s[i], " ">> \o SpaceAfterPunct(s, next)
            ELSE <<s[i]>> \o SpaceAfterPunct(s, next))

\* re.sub(r'\s+', ' ', s) from position i on
RECURSIVE CollapseSpaces(_, _)
CollapseSpaces(s, i) ==
    IF i > Len(s) THEN <<>>
    ELSE IF s[i] \in Whitespace
         THEN With(SkipClass(s, i, Whitespace), LAMBDA next :
                <<" ">> \o CollapseSpaces(s, next))
         ELSE With(i + 1, LAMBDA next : <<s[i]>> \o CollapseSpaces(s, next))

\* re.sub(r'\s\s', ' ', s) from position i on: pairs of whitespace
\* characters, not runs
RECURSIVE CollapsePairs(_, _)
CollapsePairs(s, i) ==
    IF i > Len(s) THEN <<>>
    ELSE IF s[i] \in Whitespace /\ i < Len(s) /\ s[i + 1] \in Whitespace
         THEN With(i + 2, LAMBDA next : <<" ">> \o CollapsePairs(s, next))
         ELSE With(i + 1, LAMBDA next : <<s[i]>> \o CollapsePairs(s, next))

\* a cleaning that collapses whitespace two characters at a time
clean_text_pairs(review) ==
    With(ReplaceBr(review, 1), LAMBDA text1 :
    With(SpaceAfterPunct(text1, 1), LAMBDA text2 :
    With(CollapsePairs(text2, 1), LAMBDA text3 : Strip(text3))))

clean_text(review) ==
    With(ReplaceBr(review, 1), LAMBDA text1 :
    With(SpaceAfterPunct(text1, 1), LAMBDA text2 :
    With(CollapseSpaces(text2, 1), LAMBDA text3 : Strip(text3))))

\* the positions where a sentence tokenizer may break: whitespace that
\* follows sentence-ending punctuation
BreakPoints(text) ==
    {i \in 2..Len(text) : text[i] \in Whitespace /\ text[i - 1] \in {".", "!", "?"}}

\* the pieces of text from position from on, broken at the positions cuts
RECURSIVE Pieces(_, _, _)
Pieces(text, from, cuts) ==
    IF from > Len(text) THEN <<>>
    ELSE With({c \in cuts : c >= from}, LAMBDA ahead :
            IF ahead = {} THEN <<SubSeq(text, from, Len(text))>>
            ELSE With(MinOf(ahead), LAMBDA cut :
                 With(cut + 1, LAMBDA next :
                    <<SubSeq(text, from, cut - 1)>> \o Pieces(text, next, cuts))))

\* get_sentences(text) = sent_tokenize(text), the tokenizer breaking at cuts
get_sentences(text, cuts) ==
    With(cuts \cap BreakPoints(text), LAMBDA breaks : Pieces(text, 1, breaks))

(***************************************************************************)
(* Configuration.  Scores are in units of 1/10000, confidences (rounded   *)
(* to 3 decimal places) in units of 1/1000.                                *)
(***************************************************************************)
DEFAULT_ASPECTS ==
    << <<"a", "c", "t", "i", "n", "g", "_", "p", "e", "r", "f", "o", "r", "m", "a", "n", "c", "e", "s">>,
       <<"s", "t", "o", "r", "y", "_", "p", "l", "o", "t">>,
       <<"p", "a", "c", "i", "n", "g">>,
       <<"v", "i", "s", "u", "a", "l", "s">>,
       <<"d", "i", "r", "e", "c", "t", "i", "o", "n">>,
       <<"w", "r", "i", "t", "i", "n", "g">> >>

\* DEFAULT_NLI_THRESHOLD = 0.55
DEFAULT_NLI_THRESHOLD == 5500

\* k of top_k_sentences_per_aspect, and the short-review limit len(sentences) <= 3
TopK == 3

ShortReviewLimit == 3

MethodLLM == "LLM (OpenAI)"

MethodNLI == "Zero-shot NLI (local)"

sentiments == <<TxtPositive, TxtNegative, TxtNeutral>>

\* round(score, 3)
Round3(score) == (score + 5) \div 10

(***************************************************************************)
(* Values of the inputs.  A review or an aspect list may be absent (None). *)
(***************************************************************************)
Some(x) == [some |-> TRUE, val |-> x]

Absent == [some |-> FALSE, val |-> <<>>]

\* a guard that tests only "x is None"
FalsyOnlyNone(x) == ~x.some

\* "not x" for a string or a list that may be None
Falsy(x) == ~x.some \/ x.val = <<>>

Range(seq) == {seq[i] : i \in 1..Len(seq)}

(***************************************************************************)
(* Process state threaded through one call: the three module globals,     *)
(* the number of constructions of each, the environment's credential and  *)
(* the log of what the call did to its collaborators.                      *)
(***************************************************************************)
None == 0

EmptyLog ==
    [strategies |-> <<>>, key_reads |-> 0, requests |-> 0,
     encodes |-> 0, zsc_inputs |-> <<>>]

\* a call result that also carries the process state
RetSt(v, st) == [exc |-> NoExc, val |-> v, st |-> st]

RaiseSt(e, st) == [exc |-> e, val |-> JNull, st |-> st]

Failed(r) == r.exc # NoExc

TxtModelLoad == <<"c", "a", "n", "n", "o", "t", " ", "l", "o", "a", "d", " ", "m", "o", "d", "e", "l">>

TxtConnection == <<"C", "o", "n", "n", "e", "c", "t", "i", "o", "n", " ", "e", "r", "r", "o", "r", ".">>

TxtInference == <<"i", "n", "f", "e", "r", "e", "n", "c", "e", " ", "f", "a", "i", "l", "e", "d">>

TxtClientInit == <<"c", "l", "i", "e", "n", "t", " ", "i", "n", "i", "t", " ", "f", "a", "i", "l", "e", "d">>

\* SentenceTransformer(SENTENCE_TRANSFORMER_MODEL), a new instance or a failure
_get_sentence_model(st, w) ==
    IF st.sentence_model = None
    THEN IF w.sentence_ctor_raises
         THEN RaiseSt(Exc(TxtOSError, TxtModelLoad), st)
         ELSE LET id == st.built.sentence_model + 1
              IN  RetSt(id, [st EXCEPT !.sentence_model = id,
                                       !.built.sentence_model = id])
    ELSE RetSt(st.sentence_model, st)

\* an accessor without the "is None" test: a pipeline built on every call
_get_zsc_pipeline_eager(st, w) ==
    IF w.zsc_ctor_raises
    THEN RaiseSt(Exc(TxtOSError, TxtModelLoad), st)
    ELSE LET id == st.built.zsc_pipeline + 1
         IN  RetSt(id, [st EXCEPT !.zsc_pipeline = id,
                                  !.built.zsc_pipeline = id])

_get_zsc_pipeline(st, w) ==
    IF st.zsc_pipeline = None
    THEN IF w.zsc_ctor_raises
         THEN RaiseSt(Exc(TxtOSError, TxtModelLoad), st)
         ELSE LET id == st.built.zsc_pipeline + 1
              IN  RetSt(id, [st EXCEPT !.zsc_pipeline = id,
                                       !.built.zsc_pipeline = id])
    ELSE RetSt(st.zsc_pipeline, st)

\* a test "if api_key is None: raise" in its place
get_openai_api_key_unset(st) ==
    LET st1 == [st EXCEPT !.log.key_reads = @ + 1]
    IN  IF ~st.env_key.some
        THEN RaiseSt(Exc(TxtValueError, TxtKeyMissing), st1)
        ELSE RetSt(st.env_key.val, st1)

\* config.get_openai_api_key: os.getenv, then "if not api_key: raise"
get_openai_api_key(st) ==
    LET st1 == [st EXCEPT !.log.key_reads = @ + 1]
    IN  IF Falsy(st.env_key)
        THEN RaiseSt(Exc(TxtValueError, TxtKeyMissing), st1)
        ELSE RetSt(st.env_key.val, st1)

_get_openai_client(st, w) ==
    IF st.openai_client = None
    THEN With(get_openai_api_key(st), LAMBDA key :
            IF Failed(key) THEN key
            ELSE IF w.client_ctor_raises
            THEN RaiseSt(Exc(TxtOpenAIError, TxtClientInit), key.st)
            ELSE LET id == key.st.built.openai_client + 1
                 IN  RetSt(id, [key.st EXCEPT !.openai_client = id,
                                              !.built.openai_client = id]))
    ELSE RetSt(st.openai_client, st)

(***************************************************************************)
(* Aspect relevance ranker.  The embedding model is external: what it     *)
(* yields is the cosine similarity of every aspect to every sentence.     *)
(* The world w of a call gives one similarity row, w.simrow; the row of   *)
(* an aspect is that row rotated by the aspect's first position in the    *)
(* list, so that equal names get equal rows and different names differ.   *)
(* torch.topk leaves the order of equal values to the build: w.tie says   *)
(* whether the lower or the higher index comes first among equals.        *)
(***************************************************************************)
FirstIndex(seq, x) == MinOf({i \in 1..Len(seq) : seq[i] = x})

LastIndex(seq, x) == MaxOf({i \in 1..Len(seq) : seq[i] = x})

\* util.cos_sim(asp_emb[i], sent_emb)[0] for n sentences
SimRow(w, aspects, i, n) ==
    [j \in 1..n |-> w.simrow[((j + FirstIndex(aspects, aspects[i]) - 2) % n) + 1]]

\* embed_sentences: the model accessor, then two encode calls
embed_sentences(sentences, aspects, st, w) ==
    With(_get_sentence_model(st, w), LAMBDA model :
        IF Failed(model) THEN model
        ELSE With([model.st EXCEPT !.log.encodes = @ + 1], LAMBDA st1 :
                IF w.encode_raises
                THEN RaiseSt(Exc(TxtRuntimeError, TxtInference), st1)
                ELSE RetSt([i \in 1..Len(aspects) |->
                               SimRow(w, aspects, i, Len(sentences))], st1)))

\* torch.topk(sims, k).indices: the k positions of the highest values, in
\* descending order of value
topk(sims, k, tie) ==
    LET Before(a, b) ==
            \/ sims[a] > sims[b]
            \/ /\ sims[a] = sims[b]
               /\ IF tie = "low" THEN a < b ELSE a > b
        Place(j) == 1 + Cardinality({a \in DOMAIN sims : Before(a, j)})
    IN  [p \in 1..k |-> CHOOSE j \in DOMAIN sims : Place(j) = p]

TxtTopkRange == <<"s", "e", "l", "e", "c", "t", "e", "d", " ", "i", "n", "d", "e", "x", " ", "k", " ", "o", "u", "t", " ", "o", "f", " ", "r", "a", "n", "g", "e">>

\* the function without "k = min(k, num_sentences)": torch.topk is asked
\* for k values whatever the number of sentences
top_k_sentences_per_aspect_unclamped(sentences, aspects, sims, k, tie) ==
    With(Len(sentences), LAMBDA num_sentences :
        IF k <= 0 THEN Ret([a \in Range(aspects) |-> <<>>])
        ELSE IF aspects # <<>> /\ k > num_sentences
        THEN Raise(Exc(TxtRuntimeError, TxtTopkRange))
        ELSE Ret([a \in Range(aspects) |->
                With(sims[LastIndex(aspects, a)], LAMBDA row :
                With(topk(row, k, tie), LAMBDA idx :
                    [p \in 1..k |-> sentences[idx[p]]]))]))

\* the dict {aspect: [sentences]}, a later position of a repeated name
\* overwriting the earlier one; torch.topk raises when asked for more
\* values than the row holds
top_k_sentences_per_aspect(sentences, aspects, sims, k, tie) ==
    With(Len(sentences), LAMBDA num_sentences :
    With(IF k < num_sentences THEN k ELSE num_sentences, LAMBDA kk :
        IF kk <= 0 THEN Ret([a \in Range(aspects) |-> <<>>])
        ELSE IF aspects # <<>> /\ kk > num_sentences
        THEN Raise(Exc(TxtRuntimeError, TxtTopkRange))
        ELSE Ret([a \in Range(aspects) |->
                With(sims[LastIndex(aspects, a)], LAMBDA row :
                With(topk(row, kk, tie), LAMBDA idx :
                    [p \in 1..kk |-> sentences[idx[p]]]))])))

concat_asp_sentences(top3) ==
    [a \in DOMAIN top3 |-> Join(<<" ">>, top3[a])]

(***************************************************************************)
(* Local strategy (zero-shot NLI).                                         *)
(***************************************************************************)
\* every aspect mapped to the same text
Fallback(aspects, text) == [a \in Range(aspects) |-> text]

\* an except branch "aspect_snippets = {a: review for a in aspects}" in its
\* place: the raw review whatever cleaned holds
PreprocessRawFallback(review, aspects, st, w) ==
    IF w.clean_raises \/ w.seg_raises
    THEN [snippets |-> Fallback(aspects, review), st |-> st]
    ELSE With(clean_text(review), LAMBDA cleaned :
         With(get_sentences(cleaned, w.cuts), LAMBDA sentences :
            IF Len(sentences) <= ShortReviewLimit
            THEN [snippets |-> Fallback(aspects, cleaned), st |-> st]
            ELSE With(embed_sentences(sentences, aspects, st, w), LAMBDA emb :
                IF Failed(emb)
                THEN [snippets |-> Fallback(aspects, review), st |-> emb.st]
                ELSE With(top_k_sentences_per_aspect(sentences, aspects,
                                                     emb.val, TopK, w.tie),
                          LAMBDA top3 :
                    IF Failed(top3)
                    THEN [snippets |-> Fallback(aspects, review), st |-> emb.st]
                    ELSE [snippets |-> concat_asp_sentences(top3.val),
                          st |-> emb.st]))))

\* a test "len(sentences) <= 4" in its place: a review of exactly four
\* sentences is not ranked
PreprocessLooseLimit(review, aspects, st, w) ==
    IF w.clean_raises
    THEN [snippets |-> Fallback(aspects, review), st |-> st]
    ELSE With(clean_text(review), LAMBDA cleaned :
        IF w.seg_raises
        THEN [snippets |-> Fallback(aspects, cleaned), st |-> st]
        ELSE With(get_sentences(cleaned, w.cuts), LAMBDA sentences :
            IF Len(sentences) <= ShortReviewLimit + 1
            THEN [snippets |-> Fallback(aspects, cleaned), st |-> st]
            ELSE With(embed_sentences(sentences, aspects, st, w), LAMBDA emb :
                IF Failed(emb)
                THEN [snippets |-> Fallback(aspects, cleaned), st |-> emb.st]
                ELSE With(top_k_sentences_per_aspect(sentences, aspects,
                                                     emb.val, TopK, w.tie),
                          LAMBDA top3 :
                    IF Failed(top3)
                    THEN [snippets |-> Fallback(aspects, cleaned), st |-> emb.st]
                    ELSE [snippets |-> concat_asp_sentences(top3.val),
                          st |-> emb.st]))))

\* lines 140-160: [snippets, st]; any exception of cleaning, segmentation,
\* embedding or ranking leaves every aspect with the value cleaned holds
Preprocess(review, aspects, st, w) ==
    IF w.clean_raises
    THEN [snippets |-> Fallback(aspects, review), st |-> st]
    ELSE With(clean_text(review), LAMBDA cleaned :
        IF w.seg_raises
        THEN [snippets |-> Fallback(aspects, cleaned), st |-> st]
        ELSE With(get_sentences(cleaned, w.cuts), LAMBDA sentences :
            IF Len(sentences) <= ShortReviewLimit
            THEN [snippets |-> Fallback(aspects, cleaned), st |-> st]
            ELSE With(embed_sentences(sentences, aspects, st, w), LAMBDA emb :
                IF Failed(emb)
                THEN [snippets |-> Fallback(aspects, cleaned), st |-> emb.st]
                ELSE With(top_k_sentences_per_aspect(sentences, aspects,
                                                     emb.val, TopK, w.tie),
                          LAMBDA top3 :
                    IF Failed(top3)
                    THEN [snippets |-> Fallback(aspects, cleaned), st |-> emb.st]
                    ELSE [snippets |-> concat_asp_sentences(top3.val),
                          st |-> emb.st]))))

\* the classifier's answer for the aspect at position i
ZscOutcome(w, i) == IF i % 2 = 1 THEN w.odd ELSE w.even

NliRow(a, label, conf) ==
    JDict(<<TxtAspect, TxtSentiment, TxtConfidence>>,
          <<JStr(a), JStr(label), JVal("float", <<>>, conf, <<>>, <<>>)>>)

\* a comparison "score <= threshold" in its place
ClassifyAspectInclusive(a, out, threshold) ==
    IF out.raises THEN NliRow(a, TxtError, 0)
    ELSE NliRow(a,
                IF out.score <= threshold THEN TxtNotMentioned ELSE out.label,
                Round3(out.score))

\* lines 165-181, the body of the loop for one aspect
ClassifyAspect(a, out, threshold) ==
    IF out.raises THEN NliRow(a, TxtError, 0)
    ELSE NliRow(a,
                IF out.score < threshold THEN TxtNotMentioned ELSE out.label,
                Round3(out.score))

\* a try around the whole loop in its place: the first classification that
\* raises appends its error row and ends the loop
RECURSIVE ClassifyUntilError(_, _, _, _, _, _, _)
ClassifyUntilError(i, aspects, snippets, review, threshold, w, acc) ==
    IF i > Len(aspects) THEN acc
    ELSE With(aspects[i], LAMBDA a :
         With(IF a \in DOMAIN snippets THEN snippets[a] ELSE review,
              LAMBDA focused_text :
         With(ClassifyAspect(a, ZscOutcome(w, i), threshold), LAMBDA row :
         With([rows |-> Append(acc.rows, row),
               inputs |-> Append(acc.inputs,
                                 [aspect |-> a, text |-> focused_text])],
              LAMBDA acc2 :
         With(i + 1, LAMBDA next :
            IF ZscOutcome(w, i).raises THEN acc2
            ELSE ClassifyUntilError(next, aspects, snippets, review,
                                    threshold, w, acc2))))))

\* a loop "for a in aspect_snippets" in its place: the keys of the dict,
\* every name once
RECURSIVE ClassifyFromKeys(_, _, _, _, _, _, _)
ClassifyFromKeys(i, aspects, snippets, review, threshold, w, acc) ==
    IF i > Len(aspects) THEN acc
    ELSE With(i + 1, LAMBDA next :
         With(aspects[i], LAMBDA a :
            IF \E j \in 1..(i - 1) : aspects[j] = a
            THEN ClassifyFromKeys(next, aspects, snippets, review, threshold,
                                  w, acc)
            ELSE With(ClassifyAspect(a, ZscOutcome(w, i), threshold),
                      LAMBDA row :
                 With([rows |-> Append(acc.rows, row),
                       inputs |-> Append(acc.inputs,
                                         [aspect |-> a, text |-> snippets[a]])],
                      LAMBDA acc2 :
                    ClassifyFromKeys(next, aspects, snippets, review,
                                     threshold, w, acc2)))))

\* lines 164-181: the loop over the aspects from position i on
RECURSIVE ClassifyFrom(_, _, _, _, _, _, _)
ClassifyFrom(i, aspects, snippets, review, threshold, w, acc) ==
    IF i > Len(aspects) THEN acc
    ELSE With(aspects[i], LAMBDA a :
         With(IF a \in DOMAIN snippets THEN snippets[a] ELSE review,
              LAMBDA focused_text :
         With(ClassifyAspect(a, ZscOutcome(w, i), threshold), LAMBDA row :
         With([rows |-> Append(acc.rows, row),
               inputs |-> Append(acc.inputs,
                                 [aspect |-> a, text |-> focused_text])],
              LAMBDA acc2 :
         With(i + 1, LAMBDA next :
            ClassifyFrom(next, aspects, snippets, review, threshold, w,
                         acc2))))))

nli_aspect_sentiment(review, aspects, st, w) ==
    With([st EXCEPT !.log.strategies = Append(@, "nli")], LAMBDA st0 :
    With(Preprocess(review, aspects, st0, w), LAMBDA pre :
    With(_get_zsc_pipeline(pre.st, w), LAMBDA zsc :
        IF Failed(zsc) THEN zsc
        ELSE With(ClassifyFrom(1, aspects, pre.snippets, review,
                               DEFAULT_NLI_THRESHOLD, w,
                               [rows |-> <<>>, inputs |-> <<>>]), LAMBDA done :
                RetSt(JList(done.rows),
                      [zsc.st EXCEPT !.log.zsc_inputs = done.inputs])))))

(***************************************************************************)
(* Remote strategy (LLM).                                                  *)
(***************************************************************************)
llm_aspect_sentiment(review, aspects, st, w) ==
    With([st EXCEPT !.log.strategies = Append(@, "llm")], LAMBDA st0 :
    With(_get_openai_client(st0, w), LAMBDA client :
        IF Failed(client) THEN client
        ELSE With([client.st EXCEPT !.log.requests = @ + 1], LAMBDA st1 :
            IF w.request_raises
            THEN RaiseSt(Exc(TxtAPIConnectionError, TxtConnection), st1)
            ELSE IF ~w.content.some
            THEN RaiseSt(Exc(TxtAttributeError,
                             TxtQuote \o TypeName(JNull) \o TxtNoStrip), st1)
            ELSE With(ParseCompletion(w.content.val), LAMBDA parsed :
                    [exc |-> parsed.exc, val |-> parsed.val, st |-> st1]))))

(***************************************************************************)
(* Orchestrator.                                                           *)
(***************************************************************************)
Row(aspect, sentiment) == [aspect |-> aspect, sentiment |-> sentiment]

NoReviewTable == <<Row(JStr(TxtEmpty), JStr(TxtNoReview))>>

ErrorTable(e) == <<Row(JStr(TxtErrorAspect), JStr(FormatExc(e)))>>

\* "for d in data": the items of a list, the keys of a dict, the characters
\* of a str; anything else is not iterable
Iterate(data) ==
    CASE data.t = "list" -> Ret(data.kids)
      [] data.t = "dict" -> Ret([i \in 1..Len(data.keys) |-> JStr(data.keys[i])])
      [] data.t = "str" -> Ret([i \in 1..Len(data.txt) |-> JStr(<<data.txt[i]>>)])
      [] OTHER -> Raise(Exc(TxtTypeError,
                            TxtQuote \o TypeName(data) \o TxtNotIterable))

\* a normalisation that keeps only the items holding an "aspect" field
NormalizeNamed(data) ==
    With(Iterate(data), LAMBDA items :
        IF Failed(items) THEN items
        ELSE With({i \in 1..Len(items.val) : items.val[i].t # "dict"},
                  LAMBDA bad :
            IF bad # {}
            THEN Raise(Exc(TxtAttributeError,
                           TxtQuote \o TypeName(items.val[MinOf(bad)])
                           \o TxtNoGet))
            ELSE With(SelectSeq(items.val,
                                LAMBDA d : TxtAspect \in Range(d.keys)),
                      LAMBDA named :
                    Ret([i \in 1..Len(named) |->
                            Row(DictGet(named[i], TxtAspect, JStr(TxtEmpty)),
                                DictGet(named[i], TxtSentiment,
                                        JStr(TxtEmpty)))]))))

\* lines 266-273: d.get("aspect", ""), d.get("sentiment", "") for every item
Normalize(data) ==
    With(Iterate(data), LAMBDA items :
        IF Failed(items) THEN items
        ELSE With({i \in 1..Len(items.val) : items.val[i].t # "dict"},
                  LAMBDA bad :
            IF bad # {}
            THEN Raise(Exc(TxtAttributeError,
                           TxtQuote \o TypeName(items.val[MinOf(bad)])
                           \o TxtNoGet))
            ELSE Ret([i \in 1..Len(items.val) |->
                        Row(DictGet(items.val[i], TxtAspect, JStr(TxtEmpty)),
                            DictGet(items.val[i], TxtSentiment,
                                    JStr(TxtEmpty)))])))

\* a handler "except (json.JSONDecodeError, ValueError) as e" in its place
ShieldValueErrors(e, st, strategy_exc, data) ==
    IF e.kind \in ValueErrorKinds
    THEN [raised |-> FALSE, exc |-> NoExc, table |-> ErrorTable(e),
          st |-> st, strategy_exc |-> strategy_exc, data |-> data]
    ELSE [raised |-> TRUE, exc |-> e, table |-> <<>>,
          st |-> st, strategy_exc |-> strategy_exc, data |-> data]

\* what "except Exception as e" does with an exception of the try body
Shield(e, st, strategy_exc, data) ==
    IF e.kind \in ExceptionKinds
    THEN [raised |-> FALSE, exc |-> NoExc, table |-> ErrorTable(e),
          st |-> st, strategy_exc |-> strategy_exc, data |-> data]
    ELSE [raised |-> TRUE, exc |-> e, table |-> <<>>,
          st |-> st, strategy_exc |-> strategy_exc, data |-> data]

\* the aspects a call works on: "if not aspects: aspects = DEFAULT_ASPECTS"
EffectiveAspects(aspects) ==
    IF Falsy(aspects) THEN DEFAULT_ASPECTS ELSE aspects.val

\* [raised, exc, table, st, strategy_exc, data]: whether an exception
\* reached the caller, the table returned, the process state after the
\* call, the exception that left the strategy, the strategy's payload
analyze(review, aspects, method, st, w) ==
    IF Falsy(review)
    THEN [raised |-> FALSE, exc |-> NoExc, table |-> NoReviewTable,
          st |-> st, strategy_exc |-> NoExc, data |-> JNull]
    ELSE With(EffectiveAspects(aspects), LAMBDA asp :
         With(IF method = MethodLLM
              THEN llm_aspect_sentiment(review.val, asp, st, w)
              ELSE nli_aspect_sentiment(review.val, asp, st, w), LAMBDA data :
            IF Failed(data) THEN Shield(data.exc, data.st, data.exc, JNull)
            ELSE With(Normalize(data.val), LAMBDA rows :
                IF Failed(rows)
                THEN Shield(rows.exc, data.st, NoExc, data.val)
                ELSE [raised |-> FALSE, exc |-> NoExc, table |-> rows.val,
                      st |-> data.st, strategy_exc |-> NoExc,
                      data |-> data.val])))

(***************************************************************************)
(* The collaborators' side: what the remote model may answer, what the    *)
(* classifier may score, which calls may fail.                             *)
(***************************************************************************)
\* longest aspect list a caller passes
MaxAspects == 2

Names == {<<"p", "l", "o", "t">>, <<"c", "a", "s", "t">>}

Reviews ==
    {Absent, Some(<<>>), Some(<<" ">>), Some(<<"A", ".", "B">>),
     Some(<<"A", ".", "B", "!", "<", "b", "r", ">", "C", "?", " ", "D", ".">>)}

AspectInputs ==
    {Absent} \cup {Some(l) : l \in UNION {[1..n -> Names] : n \in 0..MaxAspects}}

Methods == {MethodLLM, MethodNLI}

EnvKeys == {Absent, Some(<<>>), Some(<<"s", "k">>)}

SimLevels == {0, 1}

Ties == {"low", "high"}

ZscFails == [raises |-> TRUE, label |-> TxtNeutral, score |-> 0]

ZscSays(label, score) == [raises |-> FALSE, label |-> label, score |-> score]

Scores ==
    {DEFAULT_NLI_THRESHOLD - 1, DEFAULT_NLI_THRESHOLD, DEFAULT_NLI_THRESHOLD + 1}

OddOutcomes ==
    {ZscFails} \cup {ZscSays(l, s) : l \in Range(sentiments), s \in Scores}

EvenOutcomes == {ZscFails, ZscSays(TxtNegative, DEFAULT_NLI_THRESHOLD + 1)}

RECURSIVE IntDigits(_)
IntDigits(n) ==
    With(CHOOSE c \in Digits : DigitVal(c) = n % 10, LAMBDA d :
        IF n < 10 THEN <<d>>
        ELSE With(n \div 10, LAMBDA m : Append(IntDigits(m), d)))

\* json.dumps(v), the text a well-behaved remote model writes
RECURSIVE Dumps(_)
Dumps(v) ==
    CASE v.t = "str" -> <<"\"">> \o v.txt \o <<"\"">>
      [] v.t = "int" -> IF v.n < 0 THEN <<"-">> \o IntDigits(0 - v.n)
                        ELSE IntDigits(v.n)
      [] v.t = "float" -> v.txt
      [] v.t = "true" -> TxtTrue
      [] v.t = "false" -> TxtFalse
      [] v.t = "null" -> TxtNull
      [] v.t = "list" ->
            With([i \in 1..Len(v.kids) |->
                    With(v.kids[i], LAMBDA kid : Dumps(kid))], LAMBDA parts :
                <<"[">> \o Join(<<",", " ">>, parts) \o <<"]">>)
      [] v.t = "dict" ->
            With([i \in 1..Len(v.kids) |->
                    With(v.kids[i], LAMBDA kid :
                        <<"\"">> \o v.keys[i] \o <<"\"", ":", " ">>
                        \o Dumps(kid))], LAMBDA parts :
                <<"{">> \o Join(<<",", " ">>, parts) \o <<"}">>)

Item(aspect, sentiment) ==
    JDict(<<TxtAspect, TxtSentiment>>, <<JStr(aspect), JStr(sentiment)>>)

\* the payload the prompt asks for: one object per requested aspect
Faithful(asp) ==
    [i \in 1..Len(asp) |->
        Item(asp[i], IF i % 2 = 1 THEN TxtPositive ELSE TxtNotMentioned)]

TxtHere == <<"H", "e", "r", "e", " ", "i", "s", " ", "t", "h", "e", " ", "r", "e", "s", "u", "l", "t", ":", " ">>

TxtDone == <<" ", "D", "o", "n", "e", ".">>

TxtRefusal == <<"I", " ", "c", "a", "n", "n", "o", "t", " ", "h", "e", "l", "p", ".">>

TxtMusic == <<"m", "u", "s", "i", "c">>

TxtJson == <<"j", "s", "o", "n">>

\* a completion longer than the excerpt the parse error keeps
TxtLong == [i \in 1..(ExcerptLen + 5) |-> IF i % 7 = 0 THEN " " ELSE "x"]

\* completions of the remote model for the requested aspects asp: the
\* payload asked for, plain, fenced or inside prose, and payloads of other
\* shapes
Responses(asp) ==
    With(Faithful(asp), LAMBDA good :
    With(Dumps(JList(good)), LAMBDA plain :
        {plain,
         <<" ">> \o plain \o <<"\n">>,
         TxtFence \o TxtJson \o <<"\n">> \o plain \o <<"\n">> \o TxtFence,
         TxtFence \o <<"\n">> \o plain \o <<"\n">> \o TxtFence,
         TxtHere \o plain \o TxtDone,
         TxtRefusal,
         <<" ">> \o TxtRefusal \o <<"\n">>,
         <<"\n">> \o TxtLong,
         Dumps(JDict(<<TxtAspect>>, <<JList(<<JStr(TxtMusic)>>)>>)),
         <<>>,
         Dumps(JList(<<>>)),
         Dumps(JList(SubSeq(good, 2, Len(good)))),
         Dumps(JList(Append(good, Item(TxtMusic, TxtNeutral)))),
         Dumps(JList(<<Item(TxtMusic, TxtNeutral)>>)),
         Dumps(JList(<<JDict(<<TxtAspect>>, <<JStr(asp[1])>>)>>)),
         Dumps(JList(<<JDict(<<TxtSentiment>>, <<JStr(TxtPositive)>>)>>)),
         Dumps(JList(Append(good, JInt(1)))),
         Dumps(JList(<<JNull>>)),
         Dumps(good[1]),
         Dumps(JDict(<<>>, <<>>)),
         Dumps(JInt(7)),
         Dumps(JStr(TxtPositive))}))

\* longest JSON array among the contents given to the parser
MaxItems == 2

\* what a JSON array given to the parser may hold
Elements ==
    {Item(<<"p", "l", "o", "t">>, TxtPositive),
     JDict(<<TxtAspect>>, <<JList(<<JStr(TxtMusic)>>)>>),
     JList(<<JInt(1)>>),
     JList(<<>>),
     JStr(<<"]">>),
     JStr(<<"[", "a">>),
     JInt(7),
     JNull}

\* valid JSON contents: arrays of up to MaxItems elements, and values that
\* are no array
Contents ==
    {JList(l) : l \in UNION {[1..n -> Elements] : n \in 0..MaxItems}}
    \cup {Item(<<"p", "l", "o", "t">>, TxtPositive),
          JDict(<<TxtAspect>>, <<JList(<<JStr(TxtMusic)>>)>>),
          JDict(<<>>, <<>>),
          JStr(TxtPositive),
          JStr(<<"[", "a", "]">>),
          JInt(7),
          JBool(TRUE),
          JNull}

\* the opening fence, bare or tagged, and what separates fence and content
Openers ==
    {TxtFence, TxtFence \o TxtJson, TxtFence \o <<"J", "S", "O", "N">>}

Gaps == {<<"\n">>, <<>>}

\* the content wrapped in code fences
Fenced(opener, gap, text) == opener \o gap \o text \o gap \o TxtFence

\* a world: the answers of the collaborators during one call
DefaultWorld ==
    [clean_raises |-> FALSE, seg_raises |-> FALSE, cuts |-> {},
     sentence_ctor_raises |-> FALSE, encode_raises |-> FALSE,
     simrow |-> <<>>, tie |-> "low",
     zsc_ctor_raises |-> FALSE, odd |-> ZscFails, even |-> ZscFails,
     client_ctor_raises |-> FALSE, request_raises |-> FALSE,
     content |-> Absent]

\* the worlds of the ranking path for the break points cuts
RankWorlds(cleaned, cuts, st) ==
    With(Len(get_sentences(cleaned, cuts)), LAMBDA n :
    With([DefaultWorld EXCEPT !.cuts = cuts, !.simrow = [j \in 1..n |-> 0]],
         LAMBDA base :
        {[base EXCEPT !.simrow = v, !.tie = t] :
            v \in [1..n -> SimLevels], t \in Ties}
        \cup {[base EXCEPT !.encode_raises = TRUE]}
        \cup (IF st.sentence_model = None
              THEN {[base EXCEPT !.sentence_ctor_raises = TRUE]} ELSE {})))

\* the worlds of lines 140-160
PreWorlds(review, st) ==
    With(clean_text(review), LAMBDA cleaned :
    With(SUBSET BreakPoints(cleaned), LAMBDA allcuts :
    With({c \in allcuts : Len(get_sentences(cleaned, c)) <= ShortReviewLimit},
         LAMBDA short :
        {[DefaultWorld EXCEPT !.clean_raises = TRUE],
         [DefaultWorld EXCEPT !.seg_raises = TRUE]}
        \cup {[DefaultWorld EXCEPT !.cuts = c] : c \in short}
        \cup UNION {RankWorlds(cleaned, c, st) : c \in allcuts \ short})))

\* the worlds of lines 162-181
LocalWorlds(review, asp, st) ==
    With(PreWorlds(review, st), LAMBDA pre :
    With(IF Len(asp) >= 2 THEN EvenOutcomes ELSE {ZscFails}, LAMBDA evens :
        {[p EXCEPT !.odd = o, !.even = e] :
            p \in pre, o \in OddOutcomes, e \in evens}
        \cup (IF st.zsc_pipeline = None
              THEN {[p EXCEPT !.zsc_ctor_raises = TRUE] : p \in pre} ELSE {})))

\* the worlds of lines 203-222
RemoteWorlds(asp, st) ==
    IF st.openai_client = None /\ Falsy(st.env_key) THEN {DefaultWorld}
    ELSE {DefaultWorld,
          [DefaultWorld EXCEPT !.request_raises = TRUE]}
         \cup {[DefaultWorld EXCEPT !.content = Some(t)] : t \in Responses(asp)}
         \cup (IF st.openai_client = None
               THEN {[DefaultWorld EXCEPT !.client_ctor_raises = TRUE]} ELSE {})

Worlds(review, aspects, method, st) ==
    IF Falsy(review) THEN {DefaultWorld}
    ELSE With(EffectiveAspects(aspects), LAMBDA asp :
            IF method = MethodLLM THEN RemoteWorlds(asp, st)
            ELSE LocalWorlds(review.val, asp, st))

(***************************************************************************)
(* State.                                                                  *)
(***************************************************************************)
VARIABLES
    env_key,         \* the environment's OPENAI_API_KEY
    sentence_model,  \* the module globals: None or the instance
    zsc_pipeline,
    openai_client,
    built,           \* how many times each global's constructor completed
    pc,              \* "idle", or "returned" while the caller holds a result
    call,            \* the call the caller holds the result of
    parse,           \* a completion given to the parser, and what it made of it
    prose,           \* a JSON array inside prose, and what the parser made of it
    cleaning,        \* a text given to clean_text, cleaned once and twice
    ranking,         \* sentences, aspects and k given to the ranker, and its output
    crawl,           \* the review spider: its counter, requests and callbacks
    threads,         \* callers inside an accessor of a module global
    store            \* the movies table and the connections working on it

vars ==
    <<env_key, sentence_model, zsc_pipeline, openai_client, built, pc, call,
      parse, prose, cleaning, ranking, crawl, threads, store>>

\* the variables of the pure functions' inputs and results
units == <<parse, prose, cleaning, ranking>>

\* the variables of the analysis engine's process
engine ==
    <<env_key, sentence_model, zsc_pipeline, openai_client, built, pc, call>>

Globals ==
    [sentence_model |-> sentence_model, zsc_pipeline |-> zsc_pipeline,
     openai_client |-> openai_client]

NoCall ==
    [review |-> Absent, aspects |-> Absent, method |-> "", w |-> DefaultWorld,
     before |-> [sentence_model |-> None, zsc_pipeline |-> None,
                 openai_client |-> None],
     raised |-> FALSE, exc |-> NoExc, table |-> <<>>, strategy_exc |-> NoExc,
     data |-> JNull, log |-> EmptyLog]

\* a JSON content, the fences around it, and the two parses once done
Completion(value, opener, gap) ==
    [value |-> value, opener |-> opener, gap |-> gap, done |-> FALSE,
     unwrapped |-> Ret(JNull), wrapped |-> Ret(JNull)]

NoParse == Completion(JNull, <<>>, <<>>)

\* a JSON array, the prose before and after it, and the parse once done
Embedded(value, before, after) ==
    [value |-> value, before |-> before, after |-> after, done |-> FALSE,
     result |-> Ret(JNull)]

NoProse == Embedded(JNull, <<>>, <<>>)

\* the pieces a text is built from, and the text cleaned once and twice
Cleaning(pieces) ==
    [pieces |-> pieces, done |-> FALSE, once |-> <<>>, twice |-> <<>>]

NoCleaning == Cleaning(<<>>)

\* a call of the ranker: its arguments, the similarities the embeddings
\* give, and what top_k_sentences_per_aspect and concat_asp_sentences made
Ranking(sentences, aspects, simrow, k, tie) ==
    [sentences |-> sentences, aspects |-> aspects, simrow |-> simrow,
     k |-> k, tie |-> tie, done |-> FALSE, raised |-> FALSE,
     top |-> <<>>, snippets |-> <<>>]

NoRanking == Ranking(<<>>, <<>>, <<>>, 0, "low")

\* the movies of the review site
Movies == {"tt1", "tt2"}

\* IMDBReviewSpider.__init__(movie_id_list, max_reviews) before the crawl,
\* and the site it will crawl: for every movie its review containers in
\* page order, TRUE for a container that holds review text
Spider(movie_id_list, max_reviews, site) ==
    [movie_ids |-> movie_id_list, max_reviews |-> max_reviews,
     reviews_collected |-> 0, site |-> site, started |-> FALSE,
     pending |-> {}, running |-> {}, blocked |-> {},
     yielded |-> [m \in Movies |-> 0]]

NoCrawl == Spider(<<>>, 0, [m \in Movies |-> <<>>])

\* the threads the front-end runs its handler on
Callers == {1, 2}

\* a thread outside the accessors: the global it last asked for, the
\* instance its constructor call made, and what the accessor gave it
Outside ==
    [pc |-> "out", global |-> "", made |-> None, got |-> None,
     raised |-> FALSE]

NoThreads == [t \in Callers |-> Outside]

\* the connections get_or_create_movie is called on
Conns == {1, 2}

\* a connection not yet opened, or closed: the arguments of its last call
\* and the row id its SELECT or INSERT gave
Closed ==
    [pc |-> "closed", imdb_id |-> "", title |-> Absent, year |-> None,
     movie_id |-> None]

\* the database after init_database (database.py:12-36): the committed rows
\* of movies, row i with id i; the connection that holds the write lock (0
\* for none); the calls begun; and what the finished calls returned
NoStore ==
    [movies |-> <<>>, writer |-> 0, conns |-> [c \in Conns |-> Closed],
     begun |-> 0, returns |-> <<>>]

\* nothing but the analysis engine is in use
EngineOnly ==
    /\ parse = NoParse
    /\ prose = NoProse
    /\ cleaning = NoCleaning
    /\ ranking = NoRanking
    /\ crawl = NoCrawl
    /\ threads = NoThreads
    /\ store = NoStore

\* a process in which analyze is not called
EngineIdle ==
    /\ env_key = Absent
    /\ sentence_model = None
    /\ zsc_pipeline = None
    /\ openai_client = None
    /\ built = [sentence_model |-> 0, zsc_pipeline |-> 0, openai_client |-> 0]
    /\ pc = "idle"
    /\ call = NoCall

Init ==
    /\ EngineOnly
    /\ env_key \in EnvKeys
    /\ sentence_model = None
    /\ zsc_pipeline = None
    /\ openai_client = None
    /\ built = [sentence_model |-> 0, zsc_pipeline |-> 0, openai_client |-> 0]
    /\ pc = "idle"
    /\ call = NoCall

\* one call of analyze by a front-end (main.py:100, main.py:138)
Analyze ==
    /\ pc = "idle"
    /\ \E review \in Reviews, aspects \in AspectInputs, method \in Methods :
         LET st == [env_key |-> env_key, sentence_model |-> sentence_model,
                    zsc_pipeline |-> zsc_pipeline,
                    openai_client |-> openai_client, built |-> built,
                    log |-> EmptyLog]
         IN  \E w \in Worlds(review, aspects, method, st) :
              \E r \in {analyze(review, aspects, method, st, w)} :
                /\ sentence_model' = r.st.sentence_model
                /\ zsc_pipeline' = r.st.zsc_pipeline
                /\ openai_client' = r.st.openai_client
                /\ built' = r.st.built
                /\ call' = [review |-> review, aspects |-> aspects,
                            method |-> method, w |-> w, before |-> Globals,
                            raised |-> r.raised, exc |-> r.exc,
                            table |-> r.table,
                            strategy_exc |-> r.strategy_exc,
                            data |-> r.data, log |-> r.st.log]
                /\ pc' = "returned"
    /\ UNCHANGED <<env_key, units, crawl, threads, store>>

\* the front-end shows the table and drops it (main.py:101-102)
Render ==
    /\ pc = "returned"
    /\ pc' = "idle"
    /\ call' = NoCall
    /\ UNCHANGED <<env_key, sentence_model, zsc_pipeline, openai_client, built,
                   units, crawl, threads, store>>

Next == Analyze \/ Render

Spec == Init /\ [][Next]_vars

(***************************************************************************)
(* The response parser on its own (lines 222-239): a completion holding a *)
(* JSON content is parsed as it is and wrapped in code fences.             *)
(***************************************************************************)
InitParse ==
    /\ parse \in {Completion(v, o, g) :
                    v \in Contents, o \in Openers, g \in Gaps}
    /\ prose = NoProse
    /\ cleaning = NoCleaning
    /\ ranking = NoRanking
    /\ crawl = NoCrawl
    /\ threads = NoThreads
    /\ store = NoStore
    /\ env_key = Absent
    /\ sentence_model = None
    /\ zsc_pipeline = None
    /\ openai_client = None
    /\ built = [sentence_model |-> 0, zsc_pipeline |-> 0, openai_client |-> 0]
    /\ pc = "idle"
    /\ call = NoCall

ParseBoth ==
    /\ ~parse.done
    /\ \E text \in {Dumps(parse.value)} :
         parse' = [parse EXCEPT
                     !.done = TRUE,
                     !.unwrapped = ParseCompletion(text),
                     !.wrapped = ParseCompletion(
                                    Fenced(parse.opener, parse.gap, text))]
    /\ UNCHANGED <<engine, prose, cleaning, ranking, crawl, threads, store>>

NextParse == ParseBoth

SpecParse == InitParse /\ [][NextParse]_vars

(***************************************************************************)
(* The normalizer on texts built from line-break markup, whitespace runs,  *)
(* sentence punctuation and letters, and from broken pieces of markup.     *)
(***************************************************************************)
\* most pieces a text is built from
MaxPieces == 3

\* whole occurrences of markup, a whitespace run, punctuation, a letter
WholePieces ==
    {<<"<", "b", "r", ">">>, <<"<", "b", "r", "/", ">">>,
     <<"<", "b", "r", " ", "/", ">">>, <<" ", "\n", " ">>, <<".">>, <<"a">>}

\* the two halves of a markup occurrence
BrokenPieces == {<<"<", "b", "r">>, <<">">>, <<"/", ">">>}

PieceLists ==
    UNION {[1..n -> WholePieces \cup BrokenPieces] : n \in 0..MaxPieces}

\* the text the pieces make
TextOf(pieces) == Join(<<>>, pieces)

InitClean ==
    /\ cleaning \in {Cleaning(l) : l \in PieceLists}
    /\ parse = NoParse
    /\ prose = NoProse
    /\ ranking = NoRanking
    /\ crawl = NoCrawl
    /\ threads = NoThreads
    /\ store = NoStore
    /\ EngineIdle

\* clean_text(x), then clean_text of the result
CleanTwice ==
    /\ ~cleaning.done
    /\ \E once \in {clean_text(TextOf(cleaning.pieces))} :
         cleaning' = [cleaning EXCEPT !.done = TRUE, !.once = once,
                                      !.twice = clean_text(once)]
    /\ UNCHANGED <<engine, parse, prose, ranking, crawl, threads, store>>

NextClean == CleanTwice

SpecClean == InitClean /\ [][NextClean]_vars

(***************************************************************************)
(* The ranker on its own: top_k_sentences_per_aspect and                   *)
(* concat_asp_sentences on any sentence list, aspect list and k.           *)
(***************************************************************************)
\* longest sentence list and largest k given to the ranker
MaxSentences == 4

MaxK == 4

\* the sentence at position i of a review; positions 1 and 4 hold the
\* same sentence
Sentence(i) == <<<<"A", "B", "C">>[((i - 1) % 3) + 1], ".">>

RankLevels == {0, 1, 2}

Rankings ==
    UNION {{Ranking([i \in 1..n |-> Sentence(i)], asp, row, k, tie) :
                asp \in UNION {[1..m -> Names] : m \in 0..MaxAspects},
                row \in [1..n -> RankLevels],
                k \in 0..MaxK,
                tie \in Ties} : n \in 0..MaxSentences}

InitRank ==
    /\ ranking \in Rankings
    /\ parse = NoParse
    /\ prose = NoProse
    /\ cleaning = NoCleaning
    /\ crawl = NoCrawl
    /\ threads = NoThreads
    /\ store = NoStore
    /\ EngineIdle

\* the similarity rows of the aspects of the call
SimsOf(r) ==
    [i \in 1..Len(r.aspects) |->
        SimRow([simrow |-> r.simrow], r.aspects, i, Len(r.sentences))]

\* top3 = top_k_sentences_per_aspect(...); concat_asp_sentences(top3)
Rank ==
    /\ ~ranking.done
    /\ \E top3 \in {top_k_sentences_per_aspect(
                        ranking.sentences, ranking.aspects, SimsOf(ranking),
                        ranking.k, ranking.tie)} :
         ranking' =
            IF Failed(top3)
            THEN [ranking EXCEPT !.done = TRUE, !.raised = TRUE]
            ELSE [ranking EXCEPT !.done = TRUE, !.top = top3.val,
                                 !.snippets = concat_asp_sentences(top3.val)]
    /\ UNCHANGED <<engine, parse, prose, cleaning, crawl, threads, store>>

NextRank == Rank

SpecRank == InitRank /\ [][NextRank]_vars

(***************************************************************************)
(* The review spider (imdb_scraper.py).  A request is a movie and the      *)
(* start offset of a page; a callback is a running parse generator: its    *)
(* request and the number of containers of the page it has gone through.   *)
(* The engine is single-threaded: a generator runs from one yield to the   *)
(* next without interruption, and the generators of different responses    *)
(* take turns at their yields.                                             *)
(***************************************************************************)
\* most review containers a movie has on the site, and containers per page
MaxContainers == 3

PageSize == 2

\* the values of max_reviews a spider is given
Limits == {1, 2}

Sites ==
    [Movies -> UNION {[1..n -> BOOLEAN] : n \in 0..MaxContainers}]

Request(movie, start) == [movie |-> movie, start |-> start]

\* response.css(...) of the page at offset start: its review containers
review_containers(c, req) ==
    SubSeq(c.site[req.movie], req.start + 1,
           MinOf({req.start + PageSize, Len(c.site[req.movie])}))

\* the page carries a load-more key: the movie has containers after it
load_more_data(c, req) == req.start + PageSize < Len(c.site[req.movie])

InitCrawl ==
    /\ crawl \in {Spider(ids, k, site) :
                    ids \in {<<"tt1">>, <<"tt1", "tt2">>},
                    k \in Limits, site \in Sites}
    /\ parse = NoParse
    /\ prose = NoProse
    /\ cleaning = NoCleaning
    /\ ranking = NoRanking
    /\ threads = NoThreads
    /\ store = NoStore
    /\ EngineIdle

\* start_requests (lines 20-41): one request per movie id
start_requests ==
    /\ ~crawl.started
    /\ crawl' = [crawl EXCEPT
                    !.started = TRUE,
                    !.pending = {Request(crawl.movie_ids[i], 0) :
                                    i \in 1..Len(crawl.movie_ids)}]
    /\ UNCHANGED <<engine, units, threads, store>>

\* parse, lines 43-53: a response arrives; a 403 ends the callback
parse_begin ==
    /\ \E req \in crawl.pending, status \in {200, 403} :
         crawl' =
            IF status = 403
            THEN [crawl EXCEPT !.pending = @ \ {req},
                               !.blocked = @ \cup {req.movie}]
            ELSE [crawl EXCEPT !.pending = @ \ {req},
                               !.running = @ \cup {[req |-> req, idx |-> 0]}]
    /\ UNCHANGED <<engine, units, threads, store>>

\* parse, lines 102-258, from one yield to the next: the loop goes on from
\* container idx + 1; it returns at the limit, yields the next container
\* that holds text, or ends, and then the pagination request is yielded
\* when the limit is not reached
parse_resume ==
    /\ \E cb \in crawl.running :
        \E page \in {review_containers(crawl, cb.req)} :
        \E texts \in {{j \in (cb.idx + 1)..Len(page) : page[j]}} :
         crawl' =
            IF /\ cb.idx < Len(page)
               /\ crawl.reviews_collected >= crawl.max_reviews
            THEN [crawl EXCEPT !.running = @ \ {cb}]
            ELSE IF texts # {}
            THEN [crawl EXCEPT
                    !.reviews_collected = @ + 1,
                    !.yielded[cb.req.movie] = @ + 1,
                    !.running = (@ \ {cb})
                        \cup {[req |-> cb.req, idx |-> MinOf(texts)]}]
            ELSE IF /\ crawl.reviews_collected < crawl.max_reviews
                    /\ load_more_data(crawl, cb.req)
            THEN [crawl EXCEPT
                    !.running = @ \ {cb},
                    !.pending = @ \cup {Request(cb.req.movie,
                                                cb.req.start + Len(page))}]
            ELSE [crawl EXCEPT !.running = @ \ {cb}]
    /\ UNCHANGED <<engine, units, threads, store>>

NextCrawl == start_requests \/ parse_begin \/ parse_resume

SpecCrawl == InitCrawl /\ [][NextCrawl]_vars

(***************************************************************************)
(* The accessors of the module globals (sentiment_analyzer.py:30-56) run   *)
(* by two threads of one process, statement by statement: the test of the  *)
(* global, the constructor call, the assignment and the return are         *)
(* separate steps, and the threads take turns between them.                *)
(***************************************************************************)
GlobalNames == {"sentence_model", "zsc_pipeline", "openai_client"}

InitThreads ==
    /\ threads = NoThreads
    /\ env_key \in EnvKeys
    /\ sentence_model = None
    /\ zsc_pipeline = None
    /\ openai_client = None
    /\ built = [sentence_model |-> 0, zsc_pipeline |-> 0, openai_client |-> 0]
    /\ pc = "idle"
    /\ call = NoCall
    /\ parse = NoParse
    /\ prose = NoProse
    /\ cleaning = NoCleaning
    /\ ranking = NoRanking
    /\ crawl = NoCrawl
    /\ store = NoStore

\* "global _x" followed by an assignment to _x
AssignGlobal(g, v) ==
    /\ sentence_model' = IF g = "sentence_model" THEN v ELSE sentence_model
    /\ zsc_pipeline' = IF g = "zsc_pipeline" THEN v ELSE zsc_pipeline
    /\ openai_client' = IF g = "openai_client" THEN v ELSE openai_client

\* a handler thread calls one of the accessors (lines 70, 162, 203)
Enter(t) ==
    /\ threads[t].pc = "out"
    /\ \E g \in GlobalNames :
         threads' = [threads EXCEPT ![t] = [Outside EXCEPT !.pc = "test",
                                                           !.global = g]]
    /\ UNCHANGED <<env_key, sentence_model, zsc_pipeline, openai_client,
                   built, pc, call, units, crawl, store>>

\* "if _x is None:" (lines 33, 41, 53)
TestNone(t) ==
    /\ threads[t].pc = "test"
    /\ threads' = [threads EXCEPT ![t].pc =
                        IF Globals[threads[t].global] = None
                        THEN "construct" ELSE "return"]
    /\ UNCHANGED <<env_key, sentence_model, zsc_pipeline, openai_client,
                   built, pc, call, units, crawl, store>>

\* the right-hand side of the assignment (lines 34, 42-46, 54-55): the
\* credential is read for the client, and the constructor gives a new
\* instance or raises
Construct(t) ==
    /\ threads[t].pc = "construct"
    /\ \E g \in {threads[t].global}, ctor_raises \in BOOLEAN :
         IF (g = "openai_client" /\ Falsy(env_key)) \/ ctor_raises
         THEN /\ threads' = [threads EXCEPT ![t].pc = "out",
                                            ![t].raised = TRUE]
              /\ UNCHANGED built
         ELSE /\ built' = [built EXCEPT ![g] = @ + 1]
              /\ threads' = [threads EXCEPT ![t].pc = "store",
                                            ![t].made = built[g] + 1]
    /\ UNCHANGED <<env_key, sentence_model, zsc_pipeline, openai_client,
                   pc, call, units, crawl, store>>

\* "_x = ..." (lines 34, 42, 55)
Assign(t) ==
    /\ threads[t].pc = "store"
    /\ AssignGlobal(threads[t].global, threads[t].made)
    /\ threads' = [threads EXCEPT ![t].pc = "return"]
    /\ UNCHANGED <<env_key, built, pc, call, units, crawl, store>>

\* "return _x" (lines 35, 47, 56)
ReturnGlobal(t) ==
    /\ threads[t].pc = "return"
    /\ threads' = [threads EXCEPT ![t].pc = "out",
                                  ![t].got = Globals[threads[t].global]]
    /\ UNCHANGED <<env_key, sentence_model, zsc_pipeline, openai_client,
                   built, pc, call, units, crawl, store>>

NextThreads ==
    \E t \in Callers :
        Enter(t) \/ TestNone(t) \/ Construct(t) \/ Assign(t) \/ ReturnGlobal(t)

SpecThreads == InitThreads /\ [][NextThreads]_vars

(***************************************************************************)
(* get_or_create_movie (database.py:39-82) on two connections to one       *)
(* database, statement by statement.  SQLite lets one connection write at  *)
(* a time: the first INSERT or UPDATE of a connection takes the write      *)
(* lock, commit releases it, and a statement that does not get the lock    *)
(* within the timeout raises.  Rows are visible to others once committed.  *)
(***************************************************************************)
\* calls of get_or_create_movie in a run
MaxCalls == 3

Titles == {Absent, Some(<<"T">>)}

\* no year, or a release year
Years == {None, 1999}

TxtIntegrityError == <<"I", "n", "t", "e", "g", "r", "i", "t", "y", "E", "r", "r", "o", "r">>

TxtOperationalError == <<"O", "p", "e", "r", "a", "t", "i", "o", "n", "a", "l", "E", "r", "r", "o", "r">>

TxtUnique == <<"U", "N", "I", "Q", "U", "E", " ", "c", "o", "n", "s", "t", "r", "a", "i", "n", "t", " ", "f", "a", "i", "l", "e", "d", ":", " ", "m", "o", "v", "i", "e", "s", ".", "i", "m", "d", "b", "_", "i", "d">>

TxtLocked == <<"d", "a", "t", "a", "b", "a", "s", "e", " ", "i", "s", " ", "l", "o", "c", "k", "e", "d">>

InitStore ==
    /\ store = NoStore
    /\ parse = NoParse
    /\ prose = NoProse
    /\ cleaning = NoCleaning
    /\ ranking = NoRanking
    /\ crawl = NoCrawl
    /\ threads = NoThreads
    /\ EngineIdle

\* SELECT id FROM movies WHERE imdb_id = ? and fetchone (lines 56-57)
SelectId(movies, imdb_id) ==
    With({i \in 1..Len(movies) : movies[i].imdb_id = imdb_id}, LAMBDA ids :
        IF ids = {} THEN None ELSE MinOf(ids))

\* COALESCE(?, title) and COALESCE(?, year) (lines 65-66)
CoalesceTitle(x, title) == IF x.some THEN x ELSE title

CoalesceYear(x, year) == IF x # None THEN x ELSE year

\* the call of connection c ends: its return value or its exception
Finish(c, movie_id, created, exc) ==
    [store EXCEPT
        !.conns[c].pc = "closed",
        !.writer = IF @ = c THEN 0 ELSE @,
        !.returns = Append(@, [imdb_id |-> store.conns[c].imdb_id,
                               movie_id |-> movie_id, created |-> created,
                               exc |-> exc])]

\* get_or_create_movie(imdb_id, title, year) is called: lines 51-53
Connect(c) ==
    /\ store.conns[c].pc = "closed"
    /\ store.begun < MaxCalls
    /\ \E imdb_id \in Movies, title \in Titles, year \in Years :
         store' = [store EXCEPT
                     !.begun = @ + 1,
                     !.conns[c] = [pc |-> "select", imdb_id |-> imdb_id,
                                   title |-> title, year |-> year,
                                   movie_id |-> None]]
    /\ UNCHANGED <<engine, units, crawl, threads>>

\* lines 56-60 and 71-72: the SELECT, and the return when the row is there
\* and neither title nor year is given
Select(c) ==
    /\ store.conns[c].pc = "select"
    /\ \E cn \in {store.conns[c]} :
       \E result \in {SelectId(store.movies, cn.imdb_id)} :
         store' =
            IF result = None
            THEN [store EXCEPT !.conns[c].pc = "insert"]
            ELSE IF ~Falsy(cn.title) \/ cn.year # None
            THEN [store EXCEPT !.conns[c].pc = "update",
                               !.conns[c].movie_id = result]
            ELSE Finish(c, result, FALSE, NoExc)
    /\ UNCHANGED <<engine, units, crawl, threads>>

\* lines 63-69: the UPDATE takes the write lock
Update(c) ==
    /\ store.conns[c].pc = "update"
    /\ store.writer = 0
    /\ store' = [store EXCEPT !.writer = c, !.conns[c].pc = "commit_update"]
    /\ UNCHANGED <<engine, units, crawl, threads>>

\* lines 70-72: commit, close, return movie_id, False
CommitUpdate(c) ==
    /\ store.conns[c].pc = "commit_update"
    /\ \E cn \in {store.conns[c]} :
         store' =
            [Finish(c, cn.movie_id, FALSE, NoExc) EXCEPT
                !.movies[cn.movie_id].title = CoalesceTitle(cn.title, @),
                !.movies[cn.movie_id].year = CoalesceYear(cn.year, @)]
    /\ UNCHANGED <<engine, units, crawl, threads>>

\* lines 75-79: the INSERT takes the write lock; imdb_id is UNIQUE (line 21)
\* and the statement raises when a committed row has it
Insert(c) ==
    /\ store.conns[c].pc = "insert"
    /\ store.writer = 0
    /\ store' =
         IF SelectId(store.movies, store.conns[c].imdb_id) # None
         THEN Finish(c, None, FALSE, Exc(TxtIntegrityError, TxtUnique))
         ELSE [store EXCEPT !.writer = c, !.conns[c].pc = "commit_insert",
                            !.conns[c].movie_id = Len(store.movies) + 1]
    /\ UNCHANGED <<engine, units, crawl, threads>>

\* lines 80-82: commit, close, return movie_id, True
CommitInsert(c) ==
    /\ store.conns[c].pc = "commit_insert"
    /\ \E cn \in {store.conns[c]} :
         store' =
            [Finish(c, cn.movie_id, TRUE, NoExc) EXCEPT
                !.movies = Append(@, [imdb_id |-> cn.imdb_id,
                                      title |-> cn.title, year |-> cn.year])]
    /\ UNCHANGED <<engine, units, crawl, threads>>

\* an UPDATE or INSERT that waited the timeout of sqlite3.connect for the
\* write lock another connection holds
Busy(c) ==
    /\ store.conns[c].pc \in {"update", "insert"}
    /\ store.writer \notin {0, c}
    /\ store' = Finish(c, None, FALSE, Exc(TxtOperationalError, TxtLocked))
    /\ UNCHANGED <<engine, units, crawl, threads>>

NextStore ==
    \E c \in Conns :
        \/ Connect(c)
        \/ Select(c)
        \/ Update(c)
        \/ CommitUpdate(c)
        \/ Insert(c)
        \/ CommitInsert(c)
        \/ Busy(c)

SpecStore == InitStore /\ [][NextStore]_vars

(***************************************************************************)
(* The parser on a completion that holds a JSON array inside prose.        *)
(***************************************************************************)
TxtSee == <<"S", "e", "e", " ", "[", "1", "]", ":", " ">>

TxtEnd == <<" ", "[", "e", "n", "d", "]">>

TxtOpenObject == <<"{", "\"", "r", "\"", ":", " ">>

TxtCloseObject == <<"}">>

\* what a remote model may write before and after the array it was asked for
Befores == {<<>>, TxtHere, TxtSee, TxtOpenObject}

Afters == {<<>>, TxtDone, TxtEnd, TxtCloseObject}

\* prose before and/or after: at least one of the two
Surroundings == {x \in Befores \X Afters : x[1] # <<>> \/ x[2] # <<>>}

Arrays == {v \in Contents : v.t = "list"}

\* the completion: the array as json.dumps writes it, inside its prose
Response(e) == e.before \o Dumps(e.value) \o e.after

InitProse ==
    /\ prose \in {Embedded(v, around[1], around[2]) :
                    v \in Arrays, around \in Surroundings}
    /\ parse = NoParse
    /\ cleaning = NoCleaning
    /\ ranking = NoRanking
    /\ crawl = NoCrawl
    /\ threads = NoThreads
    /\ store = NoStore
    /\ EngineIdle

ParseProse ==
    /\ ~prose.done
    /\ \E text \in {Response(prose)} :
         prose' = [prose EXCEPT !.done = TRUE,
                                !.result = ParseCompletion(text)]
    /\ UNCHANGED <<engine, parse, cleaning, ranking, crawl, threads, store>>

NextProse == ParseProse

SpecProse == InitProse /\ [][NextProse]_vars

(***************************************************************************)
(* Properties.  They read the call the caller holds: its inputs, the       *)
(* world it ran in, the globals before it, and what it returned.           *)
(***************************************************************************)
Returned == pc = "returned"

\* the call reached a strategy: the review was neither None nor ""
Dispatched == Returned /\ call.review.some /\ call.review.val # <<>>

LocalCall == Dispatched /\ call.method = MethodNLI

RemoteCall == Dispatched /\ call.method = MethodLLM

\* the one-row table {aspect: "(error)", sentiment: "<kind>: <message>"}
IsErrorRowOf(table, e) ==
    /\ Len(table) = 1
    /\ table[1].aspect = JStr(<<"(", "e", "r", "r", "o", "r", ")">>)
    /\ table[1].sentiment = JStr(e.kind \o <<":", " ">> \o e.msg)

\* C1: analyze never raises; whatever fails inside it, the caller gets a
\* table, and when an exception left the strategy the table is the single
\* row {aspect: "(error)", sentiment: "<exception kind>: <message>"}.
C1_NeverRaises ==
    Returned =>
        /\ ~call.raised
        /\ call.exc = NoExc
        /\ call.strategy_exc # NoExc =>
              IsErrorRowOf(call.table, call.strategy_exc)
        /\ \A i \in 1..Len(call.table) :
              DOMAIN call.table[i] = {"aspect", "sentiment"}

\* C1 witness: the remote request failed with a connection error and the
\* caller holds the "(error)" row that names it.
C1_Witness ==
    /\ RemoteCall
    /\ call.w.request_raises
    /\ call.strategy_exc.kind = TxtAPIConnectionError
    /\ ~call.raised
    /\ IsErrorRowOf(call.table, call.strategy_exc)

\* C2: for a review that is None or "", any aspects, any method, analyze
\* returns exactly the row {aspect: "", sentiment: "(no review)"} and
\* touches nothing: no strategy runs, no global is constructed, the
\* credential is not read, nothing is encoded, classified or requested.
C2_NoReview ==
    (Returned /\ (~call.review.some \/ call.review.val = <<>>)) =>
        /\ ~call.raised
        /\ Len(call.table) = 1
        /\ call.table[1].aspect = JStr(<<>>)
        /\ call.table[1].sentiment =
              JStr(<<"(", "n", "o", " ", "r", "e", "v", "i", "e", "w", ")">>)
        /\ call.log.strategies = <<>>
        /\ call.log.key_reads = 0
        /\ call.log.requests = 0
        /\ call.log.encodes = 0
        /\ call.log.zsc_inputs = <<>>
        /\ Globals = call.before

\* C2 witness: an empty review sent to the remote method with two aspects,
\* answered with the "(no review)" row.
C2_Witness ==
    /\ Returned
    /\ call.review = Some(<<>>)
    /\ call.method = MethodLLM
    /\ call.aspects.some /\ Len(call.aspects.val) = 2
    /\ Len(call.table) = 1
    /\ call.table[1].sentiment = JStr(TxtNoReview)

\* the aspects the call works on: the given list, DEFAULT_ASPECTS for None or []
Requested ==
    IF call.aspects.some /\ call.aspects.val # <<>> THEN call.aspects.val
    ELSE DEFAULT_ASPECTS

\* the table has one row per name of names, in that order
RowsFollow(table, names) ==
    /\ Len(table) = Len(names)
    /\ \A i \in 1..Len(names) : table[i].aspect = JStr(names[i])

\* the construction of the classification pipeline failed in this call
PipelineFailed == call.before.zsc_pipeline = None /\ call.w.zsc_ctor_raises

\* C3 as stated: a Local call on a non-empty review and non-empty aspects
\* always returns one row per aspect, in the order given, repeated names
\* included.
C3_AsStated ==
    (LocalCall /\ call.aspects.some /\ call.aspects.val # <<>>) =>
        RowsFollow(call.table, call.aspects.val)

\* C3, amended: a Local call on a non-empty review and non-empty aspects
\* returns one row per aspect, in the order given, repeated names included,
\* whichever classification calls fail, whenever the classification
\* pipeline is obtained; when its construction raises, the table is the
\* single "(error)" row.
C3_LocalRowsFollowAspects ==
    (LocalCall /\ call.aspects.some /\ call.aspects.val # <<>>) =>
        IF PipelineFailed
        THEN /\ call.strategy_exc # NoExc
             /\ IsErrorRowOf(call.table, call.strategy_exc)
        ELSE RowsFollow(call.table, call.aspects.val)

\* C3 witness: a repeated aspect name, the first classification raising,
\* and still two rows of that name.
C3_Witness ==
    /\ LocalCall
    /\ call.aspects.some
    /\ Len(call.aspects.val) = 2
    /\ call.aspects.val[1] = call.aspects.val[2]
    /\ call.w.odd.raises
    /\ ~call.w.even.raises
    /\ RowsFollow(call.table, call.aspects.val)

\* the table is the "(no review)" row or an "(error)" row
IsSentinel(table) ==
    /\ Len(table) = 1
    /\ \/ table[1] = [aspect |-> JStr(<<>>), sentiment |-> JStr(TxtNoReview)]
       \/ table[1].aspect = JStr(TxtErrorAspect)

AspectSet(table) == {table[i].aspect : i \in 1..Len(table)}

\* C4 as stated: for every method the table has exactly the requested set
\* of aspects, or is the one "(no review)" or "(error)" row.
C4_AsStated ==
    Returned =>
        \/ AspectSet(call.table) = {JStr(a) : a \in Range(Requested)}
        \/ IsSentinel(call.table)

\* the "aspect" field of a payload item, "" when the item has none
AspectField(item) ==
    IF \E k \in 1..Len(item.keys) : item.keys[k] = TxtAspect
    THEN item.kids[CHOOSE k \in 1..Len(item.keys) : item.keys[k] = TxtAspect]
    ELSE JStr(<<>>)

\* C4, amended: the table is the one "(no review)" or "(error)" row, or
\* else: with the Local method it has exactly the requested aspects, in
\* order; with the Remote method it has one row per item of the parsed
\* payload, in the payload's order, with that item's "aspect" field ("" when
\* the item has none), whatever was requested, and no row at all for an
\* empty payload.
C4_TableAspects ==
    Returned =>
        \/ IsSentinel(call.table)
        \/ /\ call.method = MethodNLI
           /\ RowsFollow(call.table, Requested)
        \/ /\ call.method = MethodLLM
           /\ call.data.t = "list"
           /\ Len(call.table) = Len(call.data.kids)
           /\ \A i \in 1..Len(call.table) :
                 call.table[i].aspect = AspectField(call.data.kids[i])
        \/ /\ call.method = MethodLLM
           /\ \/ call.data.t = "dict" /\ call.data.keys = <<>>
              \/ call.data.t = "str" /\ call.data.txt = <<>>
           /\ call.table = <<>>

\* C4 witness: the remote model answered with an aspect nobody requested
\* and the table carries it.
C4_Witness ==
    /\ RemoteCall
    /\ call.aspects.some /\ call.aspects.val # <<>>
    /\ call.strategy_exc = NoExc
    /\ ~IsSentinel(call.table)
    /\ \E i \in 1..Len(call.table) :
          /\ call.table[i].aspect = JStr(TxtMusic)
          /\ TxtMusic \notin Range(call.aspects.val)

\* C5: in a Local call, for every aspect whose classification returns, a
\* winning score below the threshold 0.55 gives "not_mentioned" whatever the
\* winning label, and a score at or above it (equal included) gives the
\* winning label, never "not_mentioned".
C5_Threshold ==
    (LocalCall /\ ~PipelineFailed) =>
        /\ Len(call.table) = Len(Requested)
        /\ \A i \in 1..Len(Requested) :
              ~ZscOutcome(call.w, i).raises =>
                 IF ZscOutcome(call.w, i).score < DEFAULT_NLI_THRESHOLD
                 THEN call.table[i].sentiment = JStr(TxtNotMentioned)
                 ELSE /\ call.table[i].sentiment =
                            JStr(ZscOutcome(call.w, i).label)
                      /\ call.table[i].sentiment # JStr(TxtNotMentioned)

\* C5 witness: a winning score exactly at the threshold, and the row keeps
\* the winning label.
C5_Witness ==
    /\ LocalCall
    /\ ~PipelineFailed
    /\ call.w.odd = ZscSays(TxtPositive, DEFAULT_NLI_THRESHOLD)
    /\ call.table[1].sentiment = JStr(TxtPositive)

\* the world of the call with every failing classification replaced by one
\* that returns
Calm(w) ==
    [w EXCEPT !.odd = IF @.raises THEN ZscSays(TxtNeutral, DEFAULT_NLI_THRESHOLD)
                      ELSE @,
              !.even = IF @.raises THEN ZscSays(TxtNeutral, DEFAULT_NLI_THRESHOLD)
                       ELSE @]

\* the process state the call started in
StateBefore ==
    [env_key |-> env_key, sentence_model |-> call.before.sentence_model,
     zsc_pipeline |-> call.before.zsc_pipeline,
     openai_client |-> call.before.openai_client, built |-> built,
     log |-> EmptyLog]

\* C6: in a Local call, an aspect whose classification raises gets the row
\* {aspect, sentiment: "error", confidence: 0.0}, and every other aspect,
\* before or after it, gets the row it gets when no classification raises.
C6_Isolation ==
    (LocalCall /\ ~PipelineFailed) =>
        With(nli_aspect_sentiment(call.review.val, Requested, StateBefore,
                                  Calm(call.w)), LAMBDA calm :
            /\ call.data.t = "list"
            /\ Len(call.data.kids) = Len(Requested)
            /\ \A i \in 1..Len(Requested) :
                  IF ZscOutcome(call.w, i).raises
                  THEN /\ call.data.kids[i] =
                            JDict(<<TxtAspect, TxtSentiment, TxtConfidence>>,
                                  <<JStr(Requested[i]), JStr(TxtError),
                                    JVal("float", <<>>, 0, <<>>, <<>>)>>)
                       /\ call.table[i] =
                            [aspect |-> JStr(Requested[i]),
                             sentiment |-> JStr(TxtError)]
                  ELSE /\ call.data.kids[i] = calm.val.kids[i]
                       /\ call.table[i].sentiment # JStr(TxtError))

\* C6 witness: of the six default aspects the second, fourth and sixth
\* raise; the first and the third are still classified positive.
C6_Witness ==
    /\ LocalCall
    /\ ~PipelineFailed
    /\ Len(Requested) >= 3
    /\ call.w.even.raises
    /\ call.w.odd = ZscSays(TxtPositive, DEFAULT_NLI_THRESHOLD + 1)
    /\ call.table[1].sentiment = JStr(TxtPositive)
    /\ call.table[2].sentiment = JStr(TxtError)
    /\ call.table[3].sentiment = JStr(TxtPositive)

\* cleaning, segmentation, embedding or ranking raised in this call
PreprocessingFailed ==
    \/ call.w.clean_raises
    \/ call.w.seg_raises
    \/ call.w.encode_raises
    \/ call.w.sentence_ctor_raises /\ call.before.sentence_model = None

\* every aspect was classified, in order, on the text snippet
ClassifiedOn(snippet) ==
    /\ call.strategy_exc = NoExc
    /\ Len(call.table) = Len(Requested)
    /\ Len(call.log.zsc_inputs) = Len(Requested)
    /\ \A i \in 1..Len(Requested) :
          call.log.zsc_inputs[i] = [aspect |-> Requested[i], text |-> snippet]

\* C7 as stated: in a Local call (its pipeline obtained), when
\* preprocessing raises, every aspect is classified on the raw review text.
C7_AsStated ==
    (LocalCall /\ ~PipelineFailed /\ PreprocessingFailed) =>
        ClassifiedOn(call.review.val)

\* C7, amended: in a Local call (its pipeline obtained), when preprocessing
\* raises, the analysis goes on and every aspect is classified on the text
\* the variable cleaned holds: the cleaned review when cleaning returned
\* (segmentation, embedding or ranking raised), the raw review only when
\* cleaning itself raised.
C7_FallbackSnippet ==
    (LocalCall /\ ~PipelineFailed /\ PreprocessingFailed) =>
        IF call.w.clean_raises
        THEN ClassifiedOn(call.review.val)
        ELSE ClassifiedOn(clean_text(call.review.val))

\* C7 witness: segmentation raised on "A.B" and the aspects were classified
\* on the cleaned text "A. B".
C7_Witness ==
    /\ LocalCall
    /\ ~PipelineFailed
    /\ call.w.seg_raises
    /\ call.review.val = <<"A", ".", "B">>
    /\ ClassifiedOn(<<"A", ".", " ", "B">>)

\* C8: each of the three shared resources is constructed lazily and once:
\* none exists before a call that uses it, a call constructs a resource
\* only when it uses it and finds none, no resource is ever constructed a
\* second time, and a resource that exists is the one every later call
\* finds.
C8_LazySingletons ==
    /\ built.sentence_model <= 1
    /\ built.zsc_pipeline <= 1
    /\ built.openai_client <= 1
    /\ (sentence_model = None) <=> (built.sentence_model = 0)
    /\ (zsc_pipeline = None) <=> (built.zsc_pipeline = 0)
    /\ (openai_client = None) <=> (built.openai_client = 0)
    /\ Returned =>
          /\ call.before.sentence_model # None =>
                sentence_model = call.before.sentence_model
          /\ call.before.zsc_pipeline # None =>
                zsc_pipeline = call.before.zsc_pipeline
          /\ call.before.openai_client # None =>
                openai_client = call.before.openai_client
          /\ sentence_model # call.before.sentence_model =>
                LocalCall /\ call.log.encodes = 1
          /\ zsc_pipeline # call.before.zsc_pipeline =>
                LocalCall /\ ~call.w.zsc_ctor_raises
          /\ openai_client # call.before.openai_client =>
                RemoteCall /\ call.log.key_reads = 1

\* C8 witness: a Local call that found the pipeline of an earlier call,
\* classified with it and left it in place.
C8_Witness ==
    /\ LocalCall
    /\ call.before.zsc_pipeline # None
    /\ zsc_pipeline = call.before.zsc_pipeline
    /\ built.zsc_pipeline = 1
    /\ call.log.zsc_inputs # <<>>

\* the environment holds no credential: the variable is unset or empty
CredentialMissing == ~env_key.some \/ env_key.val = <<>>

\* C9: with the credential missing, a Remote call fails with the
\* configuration error that names OPENAI_API_KEY before any request is
\* made, on the first such call and on every later one, and the caller
\* sees the single "(error)" row.
C9_MissingCredential ==
    (RemoteCall /\ CredentialMissing) =>
        /\ call.strategy_exc.kind = <<"V", "a", "l", "u", "e", "E", "r", "r", "o", "r">>
        /\ Contains(call.strategy_exc.msg, TxtKeyName)
        /\ call.log.key_reads = 1
        /\ call.log.requests = 0
        /\ openai_client = None
        /\ IsErrorRowOf(call.table, call.strategy_exc)

\* C9 witness: the variable is set but empty, a Local call has already run
\* in the process, and this later Remote call ends in the "(error)" row
\* without a request.
C9_Witness ==
    /\ RemoteCall
    /\ env_key = Some(<<>>)
    /\ call.before.zsc_pipeline # None
    /\ call.log.requests = 0
    /\ Len(call.table) = 1
    /\ call.table[1].aspect = JStr(TxtErrorAspect)
    /\ call.table[1].sentiment = JStr(TxtValueError \o TxtColonSpace \o TxtKeyMissing)

\* C10 as stated: for every valid JSON content, the content wrapped in code
\* fences (bare or tagged json) parses, to the same structure as the
\* content alone.
C10_AsStated ==
    parse.done =>
        /\ parse.unwrapped = Ret(parse.value)
        /\ parse.wrapped.exc = NoExc
        /\ parse.wrapped.val = parse.unwrapped.val

\* C10, amended: for every valid JSON array, the array wrapped in code
\* fences (bare or tagged json, in either case of letters) parses, to the
\* same structure as the array alone.
C10_FencedArray ==
    (parse.done /\ parse.value.t = "list") =>
        /\ parse.unwrapped = Ret(parse.value)
        /\ parse.wrapped.exc = NoExc
        /\ parse.wrapped.val = parse.unwrapped.val

\* C10 witness: an array holding a nested array and a string with a closing
\* bracket, inside bare fences, parsed to itself.
C10_Witness ==
    /\ parse.done
    /\ parse.opener = TxtFence
    /\ parse.value = JList(<<JList(<<JInt(1)>>), JStr(<<"]">>)>>)
    /\ parse.wrapped = Ret(parse.value)

\* the text from the first "[" to the last "]" of a response
Bracketed(text) == SubSeq(text, Find(text, "["), RFind(text, "]"))

\* C11 as stated: every response holding a valid JSON array with prose
\* before and/or after it parses to that array, which is the text from the
\* first "[" to the last "]" of the response.
C11_AsStated ==
    prose.done =>
        /\ prose.result = Ret(prose.value)
        /\ Bracketed(Response(prose)) = Dumps(prose.value)

\* the response as a whole is no JSON document, and its prose holds no "["
\* before the array and no "]" after it
PlainProse ==
    /\ ~json_loads(Strip(Response(prose))).ok
    /\ Find(prose.before, "[") = 0
    /\ RFind(prose.after, "]") = 0

\* C11, amended: a response that is not itself valid JSON and holds a valid
\* JSON array with prose before and/or after it, the prose holding no "["
\* before the array and no "]" after it, parses to that array, which is
\* the text from the first "[" to the last "]" of the response.
C11_ProseArray ==
    (prose.done /\ PlainProse) =>
        /\ prose.result = Ret(prose.value)
        /\ Bracketed(Response(prose)) = Dumps(prose.value)

\* C11 witness: an array holding a nested array and a string with a
\* closing bracket, between "Here is the result: " and " Done.", parsed to
\* itself.
C11_Witness ==
    /\ prose.done
    /\ prose.before = TxtHere
    /\ prose.after = TxtDone
    /\ prose.value = JList(<<JList(<<JInt(1)>>), JStr(<<"]">>)>>)
    /\ prose.result = Ret(prose.value)

\* the Remote call received a completion text: the client was obtained and
\* the request answered
Parsed ==
    /\ RemoteCall
    /\ call.log.requests = 1
    /\ ~call.w.request_raises
    /\ call.w.content.some

\* the two attempts on the completion of the call, each on its own
DirectAttempt == json_loads(Strip(call.w.content.val))

SecondAttempt ==
    json_loads(BracketSlice(Strip(StripFences(Strip(call.w.content.val)))))

\* the parse error with the excerpt taken from text
ParseErrorOn(text) ==
    Exc(<<"V", "a", "l", "u", "e", "E", "r", "r", "o", "r">>,
        TxtParseFailed \o SubSeq(text, 1, MinOf({Len(text), 200})) \o <<".", ".", ".">>)

\* what the parser does with the completion, the excerpt of the parse error
\* being taken from text
ParsesInOrder(text) ==
    IF DirectAttempt.ok
    THEN call.strategy_exc = NoExc /\ call.data = DirectAttempt.val
    ELSE IF SecondAttempt.ok
    THEN call.strategy_exc = NoExc /\ call.data = SecondAttempt.val
    ELSE /\ call.strategy_exc = ParseErrorOn(text)
         /\ IsErrorRowOf(call.table, ParseErrorOn(text))

\* C12 as stated: the direct parse decides when it succeeds, the
\* fence-stripped and bracket-sliced parse when only it succeeds, and when
\* both fail the parse error carries the first 200 characters of the
\* response as received (unstripped) and the caller sees the single
\* "(error)" row.
C12_AsStated == Parsed => ParsesInOrder(call.w.content.val)

\* C12, amended: as stated, the excerpt being the first 200 characters of
\* the trimmed response (leading and trailing whitespace removed, fences
\* and prose kept).
C12_ParseOrder == Parsed => ParsesInOrder(Strip(call.w.content.val))

\* C12 witness: a completion of more than 200 characters that is no JSON;
\* the caller sees the "(error)" row whose message ends with 200
\* characters of it and "...".
C12_Witness ==
    /\ Parsed
    /\ call.w.content.val = <<"\n">> \o TxtLong
    /\ ~DirectAttempt.ok
    /\ ~SecondAttempt.ok
    /\ Len(call.table) = 1
    /\ call.table[1].aspect = JStr(TxtErrorAspect)
    /\ Len(call.strategy_exc.msg) = Len(TxtParseFailed) + 200 + 3
    /\ Len(call.strategy_exc.msg) < Len(TxtParseFailed) + Len(TxtLong)

\* C13 as stated: clean_text(clean_text(x)) = clean_text(x) for every text
\* built from line-break markup, whitespace runs, sentence punctuation and
\* letters, also when the removal of one markup occurrence brings the
\* pieces of another together.
C13_AsStated == cleaning.done => cleaning.twice = cleaning.once

\* C13, amended: clean_text(clean_text(x)) = clean_text(x) for every text
\* that is a concatenation of whole markup occurrences, whitespace runs,
\* sentence punctuation and letters.
C13_IdempotentOnWhole ==
    (cleaning.done /\ Range(cleaning.pieces) \subseteq WholePieces) =>
        cleaning.twice = cleaning.once

\* C13 witness: ".<br />a" is cleaned to ". a", which cleaning leaves as it
\* is.
C13_Witness ==
    /\ cleaning.done
    /\ cleaning.pieces = <<<<".">>, <<"<", "b", "r", " ", "/", ">">>, <<"a">>>>
    /\ cleaning.once = <<".", " ", "a">>
    /\ cleaning.twice = cleaning.once

\* how many times x occurs in seq
Count(seq, x) == Cardinality({i \in 1..Len(seq) : seq[i] = x})

\* the selection is made of sentences of the input, none taken more often
\* than the input holds it
TakenFrom(selection, sentences) ==
    \A i \in 1..Len(selection) :
        /\ Count(sentences, selection[i]) >= 1
        /\ Count(selection, selection[i]) <= Count(sentences, selection[i])

\* C14: for any sentence list of length n >= 0, any aspect list and any
\* k >= 0 the ranker does not raise and gives every requested aspect
\* exactly min(k, n) sentences of the input: all of them when k >= n, and
\* no sentence and an empty snippet when n = 0.
C14_RankerTotal ==
    ranking.done =>
        /\ ~ranking.raised
        /\ DOMAIN ranking.top = Range(ranking.aspects)
        /\ DOMAIN ranking.snippets = Range(ranking.aspects)
        /\ \A a \in Range(ranking.aspects) :
              /\ Len(ranking.top[a]) =
                    MinOf({ranking.k, Len(ranking.sentences)})
              /\ TakenFrom(ranking.top[a], ranking.sentences)
              /\ ranking.k >= Len(ranking.sentences) =>
                    \A i \in 1..Len(ranking.sentences) :
                        Count(ranking.top[a], ranking.sentences[i])
                            = Count(ranking.sentences, ranking.sentences[i])
              /\ ranking.sentences = <<>> =>
                    ranking.top[a] = <<>> /\ ranking.snippets[a] = <<>>

\* C14 witness: two sentences, k = 3, two aspects: each aspect got both
\* sentences.
C14_Witness ==
    /\ ranking.done
    /\ ~ranking.raised
    /\ Len(ranking.sentences) = 2
    /\ ranking.k = 3
    /\ ranking.aspects = <<<<"p", "l", "o", "t">>, <<"c", "a", "s", "t">>>>
    /\ Len(ranking.top[<<"p", "l", "o", "t">>]) = 2
    /\ Len(ranking.top[<<"c", "a", "s", "t">>]) = 2
    /\ ranking.snippets[<<"c", "a", "s", "t">>] # <<>>

\* the positions of row in descending order of value, equal values in
\* their original order
StableOrder(row) ==
    [p \in 1..Len(row) |->
        CHOOSE j \in 1..Len(row) :
            p = 1 + Cardinality({i \in 1..Len(row) :
                                    \/ row[i] > row[j]
                                    \/ row[i] = row[j] /\ i < j})]

\* the similarity row of aspect a in the call of the ranker
RowOf(a) == SimsOf(ranking)[LastIndex(ranking.aspects, a)]

\* C17 as stated: every aspect's selection is the first sentences of the
\* list ordered by descending similarity, sentences of equal similarity in
\* their original order (at the k-th place too), and its snippet is the
\* selection joined by single spaces.
C17_AsStated ==
    (ranking.done /\ ~ranking.raised) =>
        \A a \in Range(ranking.aspects) :
            /\ ranking.top[a] =
                  [p \in 1..Len(ranking.top[a]) |->
                      ranking.sentences[StableOrder(RowOf(a))[p]]]
            /\ ranking.snippets[a] = Join(<<" ">>, ranking.top[a])

\* the sentences segmentation gave in the call
Segmented == get_sentences(clean_text(call.review.val), call.w.cuts)

\* text is three different sentences of sentences joined by single spaces:
\* none left out is more similar than one taken, and the taken ones are in
\* descending order of similarity
IsTopThree(text, sentences, row) ==
    \E idx \in [1..3 -> 1..Len(sentences)] :
        /\ \A p, q \in 1..3 : p # q => idx[p] # idx[q]
        /\ \A p \in 1..2 : row[idx[p]] >= row[idx[p + 1]]
        /\ \A j \in 1..Len(sentences) :
              (\A p \in 1..3 : idx[p] # j) => row[j] <= row[idx[3]]
        /\ text = sentences[idx[1]] \o <<" ">> \o sentences[idx[2]]
                    \o <<" ">> \o sentences[idx[3]]

\* C16: in a Local call whose cleaning and segmentation return, a review of
\* at most 3 sentences (0 and 3 included) is not ranked: the embedding
\* model is neither loaded nor invoked and every aspect is classified on
\* the full cleaned review; a review of 4 or more sentences is ranked: the
\* embedding model is asked for, and when it answers every aspect is
\* classified on the snippet of its top 3 sentences.
C16_ShortCircuit ==
    (LocalCall /\ ~call.w.clean_raises /\ ~call.w.seg_raises) =>
        \A sentences \in {Segmented} :
            IF Len(sentences) <= 3
            THEN /\ call.log.encodes = 0
                 /\ sentence_model = call.before.sentence_model
                 /\ ~PipelineFailed =>
                       ClassifiedOn(clean_text(call.review.val))
            ELSE /\ \/ call.log.encodes = 1
                    \/ call.before.sentence_model = None
                          /\ call.w.sentence_ctor_raises
                 /\ (~PipelineFailed /\ ~PreprocessingFailed) =>
                       /\ call.log.encodes = 1
                       /\ Len(call.log.zsc_inputs) = Len(Requested)
                       /\ \A i \in 1..Len(Requested) :
                             /\ call.log.zsc_inputs[i].aspect = Requested[i]
                             /\ IsTopThree(call.log.zsc_inputs[i].text,
                                           sentences,
                                           SimRow(call.w, Requested, i,
                                                  Len(sentences)))

\* C16 witness: a review of four sentences, the last two the most similar
\* to the first aspect, which was classified on "C? D. A.".
C16_Witness ==
    /\ LocalCall
    /\ ~PipelineFailed
    /\ Len(Segmented) = 4
    /\ call.log.encodes = 1
    /\ call.w.simrow = <<0, 0, 1, 1>>
    /\ call.log.zsc_inputs[1].text
          = <<"C", "?", " ", "D", ".", " ", "A", ".">>

\* the crawl is over: every request answered, every callback ended
CrawlOver == crawl.started /\ crawl.pending = {} /\ crawl.running = {}

\* the reviews with text the site holds for movie m
ReviewsOf(m) == Count(crawl.site[m], TRUE)

Crawled == Range(crawl.movie_ids) \ crawl.blocked

\* C15 as stated: max_reviews limits each movie on its own: when the crawl
\* is over, every movie of the list that was not refused has yielded its
\* reviews up to max_reviews, whatever the other movies yielded and in
\* whatever order the callbacks ran.
C15_AsStated ==
    CrawlOver =>
        \A m \in Crawled :
            crawl.yielded[m] = MinOf({crawl.max_reviews, ReviewsOf(m)})

\* C18 as stated: with two threads in the accessors, every module global
\* is constructed at most once: its constructor never completes a second
\* time, whatever the order of the threads' tests and assignments.
C18_AsStated == \A g \in GlobalNames : built[g] <= 1

\* the calls for imdb_id that have returned or raised
CallsFor(imdb_id) ==
    {i \in 1..Len(store.returns) : store.returns[i].imdb_id = imdb_id}

\* C19 as stated: whatever the order of the statements of the two
\* connections, no call of get_or_create_movie fails, every call returns the
\* id of the one movies row of its imdb_id, exactly one call per imdb_id
\* returns created = True, and no two rows have the same imdb_id.
C19_AsStated ==
    /\ \A i \in 1..Len(store.returns) :
        \E r \in {store.returns[i]} :
            /\ r.exc = NoExc
            /\ r.movie_id \in 1..Len(store.movies)
            /\ store.movies[r.movie_id].imdb_id = r.imdb_id
    /\ \A imdb_id \in Movies :
            CallsFor(imdb_id) # {} =>
                Cardinality({i \in CallsFor(imdb_id) :
                                store.returns[i].created}) = 1
    /\ \A i, j \in 1..Len(store.movies) :
            store.movies[i].imdb_id = store.movies[j].imdb_id => i = j

=============================================================================
